---- MODULE Spec2Model ----
(***************************************************************************)
(* A model of the SolidityDiagram analysis core:                           *)
(*   - InheritanceResolver (src/src/analyzer/inheritanceResolver.ts 14-411) *)
(*   - DataFlowAnalyzer    (src/src/analyzer/inheritanceResolver.ts 427-)   *)
(* Strings the code inspects character by character (function bodies,      *)
(* source lines) are sequences of one-character strings.  JavaScript Maps   *)
(* and Sets are insertion ordered: a Map is a sequence of [k, v] entries,   *)
(* a Set a sequence without repetition.                                     *)
(***************************************************************************)
EXTENDS Integers, Sequences, FiniteSets, TLC

VARIABLES
    files,                    \* the workspaceFiles argument of the last build
    built,                    \* buildInheritanceGraph has run at least once
    contractMap,              \* Map: contract name -> ContractInfo
    inheritedBy,              \* Map: contract name -> Set of inheritors
    inheritanceChains,        \* Map: contract name -> linearized chain
    typeToLibraries,          \* Map: type name -> library names
    contractUsingDirectives,  \* Map: contract name -> UsingDirective[]
    call,                     \* the last resolver call: [op, ...arguments]
    result,                   \* what the last call returned
    error,                    \* "none", or the exception the last call raised
    functionInfo,             \* the FunctionInfo argument of the last analyze
    stateVariables,           \* the stateVariables argument of the last analyze
    graph,                    \* the DataFlowGraph the last analyze returned
    flow,                     \* the last backward trace: its call, the visited
                              \* Set before and after it, and whether the call
                              \* stack overflowed
    graphData,                \* the serialized graph handed to the webview
    dataFlowGraph,            \* the graph the webview script holds
    activeVariable,           \* the webview script's activeVariable
    tooltip,                  \* the webview script's tooltip element
    isLocked,                 \* the webview script's isLocked
    highlighted,              \* the names whose highlight classes the page holds
    currentPanel,             \* the provider has a webview panel
    currentContractName,      \* the provider's currentContractName
    workspaceFilesCache,      \* the provider's workspaceFilesCache
    handlers                  \* the provider's handlers in flight

rvars == <<files, built, contractMap, inheritedBy, inheritanceChains,
           typeToLibraries, contractUsingDirectives, call, result, error>>

avars == <<functionInfo, stateVariables, graph, flow, graphData, dataFlowGraph>>

\* The webview script's state and the provider's
uivars == <<activeVariable, tooltip, isLocked, highlighted>>
pvars == <<currentPanel, currentContractName, workspaceFilesCache, handlers>>
wvars == <<uivars, pvars>>

vars == <<rvars, avars, wvars>>

-----------------------------------------------------------------------------
(* Bounds of the model                                                     *)

\* Frames the call stack holds before the engine raises RangeError.
StackLimit == 8
\* Base-contract entries declared in one workspace, all contracts together.
MaxEdges == 3
\* Using-directives declared in one workspace, all contracts together.
MaxDirectives == 2
\* Message handlers of the provider that are in flight at once.
MaxHandlers == 2

-----------------------------------------------------------------------------
(* JavaScript built-ins                                                    *)

Range(s) == {s[i] : i \in 1..Len(s)}

\* Array.prototype.includes
Includes(arr, x) == \E i \in 1..Len(arr) : arr[i] = x

\* Map.prototype.has / get / set; set keeps the position of an existing key
MapHas(m, key) == \E i \in 1..Len(m) : m[i].k = key
MapGet(m, key) == m[CHOOSE i \in 1..Len(m) : m[i].k = key].v
MapSet(m, key, val) ==
    IF MapHas(m, key)
    THEN [i \in 1..Len(m) |-> IF m[i].k = key THEN [k |-> key, v |-> val] ELSE m[i]]
    ELSE Append(m, [k |-> key, v |-> val])
MapGetOr(m, key, dflt) == IF MapHas(m, key) THEN MapGet(m, key) ELSE dflt

\* Set.prototype.add on an insertion-ordered set
SetAdd(s, x) == IF Includes(s, x) THEN s ELSE Append(s, x)

\* String.prototype.trim
IsSpace(c) == c \in {" ", "\t", "\n", "\r"}
RECURSIVE TrimStart(_)
TrimStart(s) == IF s # <<>> /\ IsSpace(Head(s)) THEN TrimStart(Tail(s)) ELSE s
RECURSIVE TrimEnd(_)
TrimEnd(s) ==
    IF s # <<>> /\ IsSpace(s[Len(s)]) THEN TrimEnd(SubSeq(s, 1, Len(s) - 1)) ELSE s
Trim(s) == TrimEnd(TrimStart(s))

\* `func.body && func.body.trim() !== ''`
HasBody(func) == func.body # <<>> /\ Trim(func.body) # <<>>

\* Array.prototype.find(f => f.name === methodName): index of the first, or 0
FindFunction(functions, methodName) ==
    IF \E i \in 1..Len(functions) : functions[i].name = methodName
    THEN CHOOSE i \in 1..Len(functions) :
            /\ functions[i].name = methodName
            /\ \A j \in 1..(i - 1) : functions[j].name # methodName
    ELSE 0

-----------------------------------------------------------------------------
(* InheritanceResolver.buildInheritanceGraph                               *)

\* lines 50-58: the type -> libraries map, deduplicated, append only
RECURSIVE addDirectives(_, _, _)
addDirectives(ttl, dirs, i) ==
    IF i > Len(dirs) THEN ttl
    ELSE LET forType == dirs[i].forType
             t1 == IF MapHas(ttl, forType) THEN ttl ELSE MapSet(ttl, forType, <<>>)
             t2 == IF Includes(MapGet(t1, forType), dirs[i].libraryName)
                   THEN t1
                   ELSE MapSet(t1, forType,
                               Append(MapGet(t1, forType), dirs[i].libraryName))
         IN addDirectives(t2, dirs, i + 1)

\* lines 41-61: first pass over every contract of every file
RECURSIVE firstPass(_, _, _)
firstPass(contracts, i, acc) ==
    IF i > Len(contracts) THEN acc
    ELSE LET c == contracts[i]
             hasDirs == Len(c.usingDirectives) > 0
         IN firstPass(contracts, i + 1,
              [contractMap |-> MapSet(acc.contractMap, c.name, c),
               contractUsingDirectives |->
                   IF hasDirs
                   THEN MapSet(acc.contractUsingDirectives, c.name, c.usingDirectives)
                   ELSE acc.contractUsingDirectives,
               typeToLibraries |->
                   IF hasDirs
                   THEN addDirectives(acc.typeToLibraries, c.usingDirectives, 1)
                   ELSE acc.typeToLibraries])

\* lines 65-70: one contract's base list
RECURSIVE addBases(_, _, _, _)
addBases(ib, name, bases, j) ==
    IF j > Len(bases) THEN ib
    ELSE LET b == bases[j]
             ib1 == IF MapHas(ib, b) THEN ib ELSE MapSet(ib, b, <<>>)
         IN addBases(MapSet(ib1, b, SetAdd(MapGet(ib1, b), name)), name, bases, j + 1)

\* lines 64-71: second pass, in contractMap order
RECURSIVE secondPass(_, _, _)
secondPass(cm, i, ib) ==
    IF i > Len(cm) THEN ib
    ELSE secondPass(cm, i + 1, addBases(ib, cm[i].k, cm[i].v.baseContracts, 1))

\* mergeChain without the `includes` test of line 95
mergeChain_NoDedup(chain, baseChain, i) == chain \o SubSeq(baseChain, i, Len(baseChain))

\* lines 94-98: append the names of baseChain the chain does not hold yet
RECURSIVE mergeChain(_, _, _)
mergeChain(chain, baseChain, i) ==
    IF i > Len(baseChain) THEN chain
    ELSE mergeChain(IF Includes(chain, baseChain[i]) THEN chain
                    ELSE Append(chain, baseChain[i]),
                    baseChain, i + 1)

\* computeInheritanceChain without its cycle guard
chainVisited_Never(visited, contractName) == FALSE

\* lines 83-85: the cycle guard
chainVisited(visited, contractName) == contractName \in visited

\* lines 82-103.  depth counts the frames in use; a call that would need more
\* than StackLimit frames raises RangeError (overflow).
RECURSIVE computeInheritanceChain(_, _, _, _)
RECURSIVE chainLoop(_, _, _, _, _, _)
computeInheritanceChain(cm, contractName, visited, depth) ==
    IF depth > StackLimit THEN [chain |-> <<>>, overflow |-> TRUE]
    ELSE IF chainVisited(visited, contractName) THEN [chain |-> <<>>, overflow |-> FALSE]
    ELSE chainLoop(cm,
                   IF MapHas(cm, contractName)
                   THEN MapGet(cm, contractName).baseContracts ELSE <<>>,
                   1, <<contractName>>, visited \cup {contractName}, depth)
chainLoop(cm, bases, i, chain, visited, depth) ==
    IF i > Len(bases) THEN [chain |-> chain, overflow |-> FALSE]
    ELSE LET r == computeInheritanceChain(cm, bases[i], visited, depth + 1)
         IN IF r.overflow THEN r
            ELSE chainLoop(cm, bases, i + 1, mergeChain(chain, r.chain, 1),
                           visited, depth)

\* lines 74-76: third pass; stops at the first chain that raises
RECURSIVE thirdPass(_, _, _)
thirdPass(cm, i, chains) ==
    IF i > Len(cm) THEN [chains |-> chains, overflow |-> FALSE]
    ELSE LET r == computeInheritanceChain(cm, cm[i].k, {}, 1)
         IN IF r.overflow THEN [chains |-> chains, overflow |-> TRUE]
            ELSE thirdPass(cm, i + 1, MapSet(chains, cm[i].k, r.chain))

\* The five maps of a resolver as constructed, lines 16-28
NewResolver == [contractMap |-> <<>>, inheritedBy |-> <<>>, inheritanceChains |-> <<>>,
                typeToLibraries |-> <<>>, contractUsingDirectives |-> <<>>]

\* buildInheritanceGraph without the clear() calls of lines 34-38
clear_Nothing(map) == map

\* Map.prototype.clear
clear(map) == <<>>

\* lines 33-77: the five maps of resolver R after a build from `contracts`,
\* the contracts of the workspace files in iteration order
buildInheritanceGraph(R, contracts) ==
    LET p1 == firstPass(contracts, 1,
                [contractMap |-> clear(R.contractMap),
                 contractUsingDirectives |-> clear(R.contractUsingDirectives),
                 typeToLibraries |-> clear(R.typeToLibraries)])
        p3 == thirdPass(p1.contractMap, 1, clear(R.inheritanceChains))
    IN [contractMap |-> p1.contractMap,
        inheritedBy |-> secondPass(p1.contractMap, 1, clear(R.inheritedBy)),
        inheritanceChains |-> p3.chains,
        typeToLibraries |-> p1.typeToLibraries,
        contractUsingDirectives |-> p1.contractUsingDirectives,
        overflow |-> p3.overflow]

-----------------------------------------------------------------------------
(* InheritanceResolver queries.  R is the record of the five maps.         *)

Undefined == "undefined"    \* an omitted optional argument

ImplementationInfo(name, contract, func, isInherited, chain) ==
    [contractName |-> name, contractKind |-> contract.kind, functionInfo |-> func,
     filePath |-> contract.filePath, isInherited |-> isInherited,
     inheritanceChain |-> chain]

\* lines 141-149: the local closure collectInheritors; `res` is the result Set
RECURSIVE collectInheritors(_, _, _, _)
RECURSIVE collectLoop(_, _, _, _, _)
collectInheritors(ib, name, res, depth) ==
    IF depth > StackLimit THEN [result |-> res, overflow |-> TRUE]
    ELSE IF MapHas(ib, name) THEN collectLoop(ib, MapGet(ib, name), 1, res, depth)
    ELSE [result |-> res, overflow |-> FALSE]
collectLoop(ib, inheritors, i, res, depth) ==
    IF i > Len(inheritors) THEN [result |-> res, overflow |-> FALSE]
    ELSE LET r == collectInheritors(ib, inheritors[i],
                                    SetAdd(res, inheritors[i]), depth + 1)
         IN IF r.overflow THEN r
            ELSE collectLoop(ib, inheritors, i + 1, r.result, depth)

\* lines 138-153
getImplementingContracts(R, interfaceName) ==
    LET r == collectInheritors(R.inheritedBy, interfaceName, <<>>, 1)
    IN [value |-> IF r.overflow THEN <<>> ELSE r.result,
        error |-> IF r.overflow THEN "RangeError" ELSE "none"]

\* findMethodInContract without the interface test of line 166
skipInterface_Never(contract) == FALSE

\* lines 165-166: interfaces of the chain are skipped
skipInterface(contract) == contract.kind = "interface"

\* lines 169-170: the function the chain element contributes, as an index, or 0
implementingFunction(contract, methodName) ==
    LET fi == FindFunction(contract.functions, methodName)
    IN IF fi # 0 /\ HasBody(contract.functions[fi]) THEN fi ELSE 0

\* lines 161-183: the walk along the chain; <<>> stands for null
RECURSIVE findInChain(_, _, _, _, _)
findInChain(R, chain, i, contractName, methodName) ==
    IF i > Len(chain) THEN <<>>
    ELSE IF ~MapHas(R.contractMap, chain[i])
    THEN findInChain(R, chain, i + 1, contractName, methodName)
    ELSE LET contract == MapGet(R.contractMap, chain[i])
             fi == implementingFunction(contract, methodName)
         IN IF skipInterface(contract) \/ fi = 0
            THEN findInChain(R, chain, i + 1, contractName, methodName)
            ELSE <<ImplementationInfo(chain[i], contract, contract.functions[fi],
                                      chain[i] # contractName, chain)>>

\* lines 158-184
findMethodInContract(R, contractName, methodName) ==
    findInChain(R, MapGetOr(R.inheritanceChains, contractName, <<contractName>>),
                1, contractName, methodName)

\* lines 118-130
RECURSIVE implementationsOf(_, _, _, _)
implementationsOf(R, implementing, i, methodName) ==
    IF i > Len(implementing) THEN <<>>
    ELSE LET name == implementing[i]
             rest == implementationsOf(R, implementing, i + 1, methodName)
         IN IF ~MapHas(R.contractMap, name) THEN rest
            ELSE IF MapGet(R.contractMap, name).kind = "interface" THEN rest
            ELSE findMethodInContract(R, name, methodName) \o rest

\* lines 112-133
findImplementations(R, interfaceName, methodName) ==
    LET ic == getImplementingContracts(R, interfaceName)
    IN IF ic.error # "none" THEN [value |-> <<>>, error |-> ic.error]
       ELSE [value |-> implementationsOf(R, ic.value, 1, methodName),
             error |-> "none"]

\* lines 196-215: the functions of one contract
RECURSIVE methodsOf(_, _, _, _, _, _)
methodsOf(R, name, contract, j, methodName, paramCount) ==
    IF j > Len(contract.functions) THEN <<>>
    ELSE LET func == contract.functions[j]
             rest == methodsOf(R, name, contract, j + 1, methodName, paramCount)
         IN IF func.name # methodName THEN rest
            ELSE IF paramCount # Undefined /\ func.params # paramCount THEN rest
            ELSE IF HasBody(func)
            THEN <<ImplementationInfo(name, contract, func, FALSE,
                       MapGetOr(R.inheritanceChains, name, <<name>>))>> \o rest
            ELSE rest

\* lines 189-219
RECURSIVE contractsWithMethod(_, _, _, _)
contractsWithMethod(R, i, methodName, paramCount) ==
    IF i > Len(R.contractMap) THEN <<>>
    ELSE LET rest == contractsWithMethod(R, i + 1, methodName, paramCount)
         IN IF R.contractMap[i].v.kind = "interface" THEN rest
            ELSE methodsOf(R, R.contractMap[i].k, R.contractMap[i].v, 1,
                           methodName, paramCount) \o rest
findContractsWithMethod(R, methodName, paramCount) ==
    contractsWithMethod(R, 1, methodName, paramCount)

\* lines 288-297: the libraries the context contract's own directives name
RECURSIVE contextLibraries(_, _, _)
contextLibraries(directives, i, typeName) ==
    IF i > Len(directives) THEN <<>>
    ELSE IF directives[i].forType = typeName \/ directives[i].forType = "*"
    THEN <<directives[i].libraryName>> \o contextLibraries(directives, i + 1, typeName)
    ELSE contextLibraries(directives, i + 1, typeName)

\* lines 301-305 and 309-313: append the libraries not yet listed
RECURSIVE appendMissing(_, _, _)
appendMissing(list, libs, i) ==
    IF i > Len(libs) THEN list
    ELSE appendMissing(IF Includes(list, libs[i]) THEN list ELSE Append(list, libs[i]),
                       libs, i + 1)

\* the context contract's directives taken instead of the global maps
librariesToSearch_ContextOnly(R, typeName, contextContract) ==
    IF contextContract # Undefined /\ MapHas(R.contractUsingDirectives, contextContract)
    THEN contextLibraries(MapGet(R.contractUsingDirectives, contextContract), 1, typeName)
    ELSE appendMissing(appendMissing(<<>>, MapGetOr(R.typeToLibraries, typeName, <<>>), 1),
                       MapGetOr(R.typeToLibraries, "*", <<>>), 1)

\* lines 285-313
librariesToSearch(R, typeName, contextContract) ==
    LET ctx == IF contextContract # Undefined
                  /\ MapHas(R.contractUsingDirectives, contextContract)
               THEN contextLibraries(MapGet(R.contractUsingDirectives, contextContract),
                                     1, typeName)
               ELSE <<>>
        withGlobal == appendMissing(ctx, MapGetOr(R.typeToLibraries, typeName, <<>>), 1)
    IN appendMissing(withGlobal, MapGetOr(R.typeToLibraries, "*", <<>>), 1)

\* lines 316-332
RECURSIVE searchLibraries(_, _, _, _)
searchLibraries(R, libs, i, methodName) ==
    IF i > Len(libs) THEN <<>>
    ELSE LET rest == searchLibraries(R, libs, i + 1, methodName)
         IN IF ~MapHas(R.contractMap, libs[i]) THEN rest
            ELSE LET library == MapGet(R.contractMap, libs[i])
                     fi == implementingFunction(library, methodName)
                 IN IF library.kind # "library" \/ fi = 0 THEN rest
                    ELSE <<[contractName |-> libs[i], contractKind |-> "library",
                            functionInfo |-> library.functions[fi],
                            filePath |-> library.filePath, isInherited |-> FALSE,
                            inheritanceChain |-> <<libs[i]>>]>> \o rest

\* lines 281-335
findLibraryMethods(R, typeName, methodName, contextContract) ==
    searchLibraries(R, librariesToSearch(R, typeName, contextContract), 1, methodName)

\* the general search appended whatever was found before
generalSearch_Always(R, found, methodName) ==
    findContractsWithMethod(R, methodName, Undefined)

\* lines 359-362: the general search runs only when nothing was found
generalSearch(R, found, methodName) ==
    IF Len(found) = 0 THEN findContractsWithMethod(R, methodName, Undefined) ELSE <<>>

\* lines 347-365
findAllImplementations(R, interfaceName, methodName, contextContract) ==
    LET libraryImpls == findLibraryMethods(R, interfaceName, methodName, contextContract)
        interfaceImpls == findImplementations(R, interfaceName, methodName)
        implementations == libraryImpls \o interfaceImpls.value
    IN IF interfaceImpls.error # "none"
       THEN [value |-> <<>>, error |-> interfaceImpls.error]
       ELSE [value |-> implementations \o generalSearch(R, implementations, methodName),
             error |-> "none"]

-----------------------------------------------------------------------------
(* The inputs: workspaces of parsed contracts                              *)

SeqsUpTo(S, n) == UNION {[1..j -> S] : j \in 0..n}

Fn(name, params, body) == [name |-> name, params |-> params, body |-> body]

Contract(name, kind, bases, directives, functions) ==
    [name |-> name, kind |-> kind, baseContracts |-> bases,
     usingDirectives |-> directives, functions |-> functions,
     filePath |-> <<name, ".sol">>]

Profile(kind, functions) == [kind |-> kind, functions |-> functions]

\* The contracts of an inheritance workspace, in file order, and what each may be.
TypeNames == <<"I", "A", "B">>
MethodNames == {"m", "z"}          \* no contract declares z
QueryNames == {"I", "A", "B", "Z"} \* no contract is named Z

ProfilesOf(name) ==
    CASE name = "I" -> {Profile("interface", <<Fn("m", 1, <<>>)>>),
                        Profile("interface", <<Fn("m", 1, <<"x">>)>>)}
      [] name = "A" -> {Profile("contract", <<Fn("m", 1, <<"x">>)>>),
                        Profile("contract", <<Fn("m", 1, <<" ">>)>>)}
      [] OTHER      -> {Profile("contract", <<Fn("m", 1, <<" ", "x", " ">>)>>),
                        Profile("abstract", <<Fn("m", 0, <<>>), Fn("m", 1, <<"x">>)>>)}

\* Every way to give n contracts base lists over `names` with `budget` entries in all.
RECURSIVE BaseLists(_, _, _)
BaseLists(n, names, budget) ==
    IF n = 0 THEN {<<>>}
    ELSE UNION {{<<bases>> \o rest : rest \in BaseLists(n - 1, names, budget - Len(bases))} :
                bases \in SeqsUpTo(names, budget)}

RECURSIVE ProfileLists(_)
ProfileLists(n) ==
    IF n = 0 THEN {<<>>}
    ELSE {rest \o <<p>> : rest \in ProfileLists(n - 1), p \in ProfilesOf(TypeNames[n])}

InheritSnapshotsOf(n) ==
    {[i \in 1..n |-> Contract(TypeNames[i], ps[i].kind, bl[i], <<>>, ps[i].functions)] :
        ps \in ProfileLists(n), bl \in BaseLists(n, Range(TypeNames), MaxEdges)}

InheritSnapshots == UNION {InheritSnapshotsOf(n) : n \in 0..Len(TypeNames)}

-----------------------------------------------------------------------------
(* The resolver as a state machine: one action per public method           *)

Resolver == [contractMap |-> contractMap, inheritedBy |-> inheritedBy,
             inheritanceChains |-> inheritanceChains,
             typeToLibraries |-> typeToLibraries,
             contractUsingDirectives |-> contractUsingDirectives]

Call(op, a1, a2, a3) == [op |-> op, a1 |-> a1, a2 |-> a2, a3 |-> a3]

maps == <<files, built, contractMap, inheritedBy, inheritanceChains,
          typeToLibraries, contractUsingDirectives>>

\* No function has been analyzed: the analyzer keeps no state of its own.
NoGraph == [nodes |-> <<>>, edges |-> <<>>, sinks |-> <<>>,
            definitions |-> <<>>, uses |-> <<>>]

NoFlow == [call |-> "none", varName |-> Undefined, before |-> <<>>,
           visited |-> <<>>, targets |-> <<>>, overflow |-> FALSE]

NoFunction == [name |-> "", parameters |-> <<>>, fullSource |-> <<>>,
               location |-> [start |-> [line |-> 0]]]

InitAnalyzer ==
    /\ functionInfo = NoFunction
    /\ stateVariables = <<>>
    /\ graph = NoGraph
    /\ flow = NoFlow
    \* <<>> stands for undefined and for null, <<x>> for the value x
    /\ graphData = <<>>
    /\ dataFlowGraph = <<>>

InitResolver ==
    /\ files = <<>>
    /\ built = FALSE
    /\ contractMap = <<>>
    /\ inheritedBy = <<>>
    /\ inheritanceChains = <<>>
    /\ typeToLibraries = <<>>
    /\ contractUsingDirectives = <<>>
    /\ call = Call("new", Undefined, Undefined, Undefined)
    \* result is what the last call returned; a constructor returns nothing
    /\ result = <<>>
    /\ error = "none"

\* The webview script as loaded: dataFlowVisualizer.ts, lines 15-18
InitVisualizer ==
    /\ activeVariable = <<>>
    /\ tooltip = <<>>
    /\ isLocked = FALSE
    /\ highlighted = {}

\* No handler of the provider is in flight
IdleHandler == [kind |-> "none", pc |-> "idle", message |-> <<>>, fetched |-> <<>>]

\* The provider as constructed: webviewProvider.ts, lines 27-52
InitProvider ==
    /\ currentPanel = FALSE
    /\ currentContractName = ""
    /\ workspaceFilesCache = <<>>
    /\ handlers = [h \in 1..MaxHandlers |-> IdleHandler]

\* All classes as constructed
Init == InitResolver /\ InitAnalyzer /\ InitVisualizer /\ InitProvider

\* The first build sees any workspace; a later one sees it with every file closed.
Rebuildable(workspaces) == IF ~built THEN workspaces ELSE {<<>>}

\* buildInheritanceGraph(workspaceFiles), lines 33-77
BuildInheritanceGraph(workspaces) ==
    \E contracts \in Rebuildable(workspaces) :
        LET g == buildInheritanceGraph(Resolver, contracts)
        IN /\ files' = contracts
           /\ built' = TRUE
           /\ contractMap' = g.contractMap
           /\ inheritedBy' = g.inheritedBy
           /\ inheritanceChains' = g.inheritanceChains
           /\ typeToLibraries' = g.typeToLibraries
           /\ contractUsingDirectives' = g.contractUsingDirectives
           /\ call' = Call("buildInheritanceGraph", Undefined, Undefined, Undefined)
           /\ result' = <<>>
           /\ error' = IF g.overflow THEN "RangeError" ELSE "none"
           /\ UNCHANGED <<avars, wvars>>

Returns(op, a1, a2, a3, r) ==
    /\ call' = Call(op, a1, a2, a3)
    /\ result' = r.value
    /\ error' = r.error
    /\ UNCHANGED <<maps, avars, wvars>>

\* getImplementingContracts(interfaceName), lines 138-153
GetImplementingContracts ==
    \E i \in QueryNames :
        Returns("getImplementingContracts", i, Undefined, Undefined,
                getImplementingContracts(Resolver, i))

\* findImplementations(interfaceName, methodName), lines 112-133
FindImplementations ==
    \E i \in QueryNames, m \in MethodNames :
        Returns("findImplementations", i, m, Undefined,
                findImplementations(Resolver, i, m))

NextInherit ==
    \/ BuildInheritanceGraph(InheritSnapshots)
    \/ GetImplementingContracts
    \/ FindImplementations

SpecInherit == Init /\ [][NextInherit]_vars

-----------------------------------------------------------------------------
(* Library workspaces: contracts A and B carry using-directives            *)

LibraryNames == <<"I", "A", "B", "L", "M">>

\* The directives a contract may declare.
Directives == {[libraryName |-> l, forType |-> t] : l \in {"L", "M"}, t \in {"I", "*"}}

\* Every way to give n contracts directive lists with `budget` directives in all.
RECURSIVE DirectiveLists(_, _)
DirectiveLists(n, budget) ==
    IF n = 0 THEN {<<>>}
    ELSE UNION {{<<ds>> \o rest : rest \in DirectiveLists(n - 1, budget - Len(ds))} :
                ds \in SeqsUpTo(Directives, budget)}

LibrarySnapshots ==
    {<<Contract("I", "interface", <<>>, <<>>, <<Fn("m", 1, <<>>)>>),
       Contract("A", "contract", aBases, dl[1], aFuncs),
       Contract("B", "contract", <<>>, dl[2], <<>>),
       Contract("L", lp.kind, <<>>, <<>>, lp.functions),
       Contract("M", "library", <<>>, <<>>, <<Fn("m", 1, <<"x">>)>>)>> :
        aBases \in {<<>>, <<"I">>},
        aFuncs \in {<<>>, <<Fn("m", 1, <<"x">>)>>},
        lp \in {Profile("library", <<Fn("m", 1, <<"x">>)>>),
                Profile("library", <<Fn("m", 1, <<" ">>)>>),
                Profile("contract", <<Fn("m", 1, <<"x">>)>>)},
        dl \in DirectiveLists(2, MaxDirectives)}

LibraryTypes == {"I", "Z"}                 \* no contract is named Z
Contexts == {Undefined, "A", "B"}

\* findLibraryMethods(typeName, methodName, contextContract?), lines 281-335
FindLibraryMethods ==
    \E t \in LibraryTypes, m \in MethodNames, c \in Contexts :
        Returns("findLibraryMethods", t, m, c,
                [value |-> findLibraryMethods(Resolver, t, m, c), error |-> "none"])

\* findAllImplementations(interfaceName, methodName, contextContract?), lines 347-365
FindAllImplementations ==
    \E t \in LibraryTypes, m \in MethodNames, c \in Contexts :
        Returns("findAllImplementations", t, m, c,
                findAllImplementations(Resolver, t, m, c))

NextLibrary ==
    \/ BuildInheritanceGraph(LibrarySnapshots)
    \/ FindLibraryMethods
    \/ FindAllImplementations

SpecLibrary == Init /\ [][NextLibrary]_vars


-----------------------------------------------------------------------------
(* Source text of the data-flow analyzer.  A line is a sequence of         *)
(* one-character strings; positions are 1-based, match indices and columns *)
(* are 0-based as in JavaScript.  Names taken out of a line become strings.*)

LowerChars == <<"a", "b", "c", "d", "e", "f", "g", "h", "i", "j", "k", "l", "m",
                "n", "o", "p", "q", "r", "s", "t", "u", "v", "w", "x", "y", "z">>
UpperChars == <<"A", "B", "C", "D", "E", "F", "G", "H", "I", "J", "K", "L", "M",
                "N", "O", "P", "Q", "R", "S", "T", "U", "V", "W", "X", "Y", "Z">>

Uppers == Range(UpperChars)
Digits == {"0", "1", "2", "3", "4", "5", "6", "7", "8", "9"}
IdentStartChars == Range(LowerChars) \cup {"_"}
WordChars == IdentStartChars \cup Uppers \cup Digits
SpaceChars == {" ", "\t", "\n", "\r"}

\* [+\-*\/]
IsOperator(c) == c \in {"+", "-", "*", "/"}

\* The character at a position; "" before the start and past the end
At(s, i) == IF i >= 1 /\ i <= Len(s) THEN s[i] ELSE ""

\* The string a sequence of characters spells
RECURSIVE Str(_)
Str(s) ==
    IF s = <<>> THEN ""
    ELSE IF Len(s) = 1 THEN s[1]
    ELSE Str(SubSeq(s, 1, Len(s) \div 2)) \o Str(SubSeq(s, Len(s) \div 2 + 1, Len(s)))

\* The `i` flag of a pattern: compare in lower case
ToLower(c) ==
    IF c \in Uppers
    THEN LowerChars[CHOOSE i \in 1..Len(UpperChars) : UpperChars[i] = c]
    ELSE c
ToLowerCase(s) == [i \in 1..Len(s) |-> ToLower(s[i])]

\* The first position at or after i whose character is not in C; it is past
\* the end when every character up to the end is in C
SkipChars(s, i, C) ==
    CHOOSE j \in i..(IF i > Len(s) THEN i ELSE Len(s) + 1) :
        /\ At(s, j) \notin C
        /\ \A k \in i..(j - 1) : s[k] \in C

\* \w*, \s* and \d* are greedy: the last position of the run of word
\* characters starting at i (i - 1 when there is none), the first position at
\* or after i that holds no white space, no digit
WordEnd(s, i) == SkipChars(s, i, WordChars) - 1
SkipSpaces(s, i) == SkipChars(s, i, SpaceChars)
SkipDigits(s, i) == SkipChars(s, i, Digits)

\* \b before position i
WordBoundary(s, i) == (At(s, i - 1) \in WordChars) # (At(s, i) \in WordChars)

\* The literal w (a string) stands in s at position i
StartsWithAt(s, i, w) ==
    /\ i >= 1
    /\ i + Len(w) - 1 <= Len(s)
    /\ \A k \in 1..Len(w) : s[i + k - 1] = SubSeq(w, k, k)

\* The first position at or after `from` where the literal stands; 0 if none
IndexOfFrom(s, w, from) ==
    IF \E i \in from..Len(s) : StartsWithAt(s, i, w)
    THEN CHOOSE i \in from..Len(s) :
            /\ StartsWithAt(s, i, w)
            /\ \A j \in from..(i - 1) : ~StartsWithAt(s, j, w)
    ELSE 0

\* String.prototype.indexOf: 0-based, -1 if absent
IndexOf(s, w) == IndexOfFrom(s, w, 1) - 1

\* String.prototype.includes
IncludesText(s, w) == IndexOfFrom(s, w, 1) # 0

\* The first position at or after `from` holding a character of C; 0 if none
FindChar(s, from, C) ==
    IF \E i \in from..Len(s) : s[i] \in C
    THEN CHOOSE i \in from..Len(s) :
            /\ s[i] \in C
            /\ \A j \in from..(i - 1) : s[j] \notin C
    ELSE 0

\* String.prototype.split(separator character)
RECURSIVE Split(_, _)
Split(s, c) ==
    LET i == FindChar(s, 1, {c})
    IN IF i = 0 THEN <<s>>
       ELSE <<SubSeq(s, 1, i - 1)>> \o Split(SubSeq(s, i + 1, Len(s)), c)

\* String.prototype.split(/\s+/)
RECURSIVE SplitSpaces(_)
SplitSpaces(s) ==
    LET i == FindChar(s, 1, SpaceChars)
    IN IF i = 0 THEN <<s>>
       ELSE <<SubSeq(s, 1, i - 1)>>
            \o SplitSpaces(SubSeq(s, SkipSpaces(s, i), Len(s)))

\* The elements of a finite set of numbers in ascending order
Ascending(S) ==
    [k \in 1..Cardinality(S) |->
        CHOOSE i \in S : Cardinality({j \in S : j < i}) = k - 1]

\* /\b([a-z_][a-zA-Z0-9_]*)\b/g : the runs of word characters that begin
\* with [a-z_], from left to right
identifiers(s) ==
    LET starts == Ascending({i \in 1..Len(s) :
                      (s[i] \in IdentStartChars) /\ ~(At(s, i - 1) \in WordChars)})
    IN [k \in 1..Len(starts) |->
           [index |-> starts[k] - 1,
            text |-> SubSeq(s, starts[k], WordEnd(s, starts[k]))]]

\* /^[a-z_][a-zA-Z0-9_]*$/
IsIdentifier(s) ==
    /\ s # <<>>
    /\ s[1] \in IdentStartChars
    /\ \A i \in 1..Len(s) : s[i] \in WordChars

-----------------------------------------------------------------------------
(* DataFlowAnalyzer: vocabularies and patterns                             *)

\* AMOUNT_PATTERNS, line 429
AmountWords ==
    {"amount", "value", "qty", "quantity", "balance", "shares", "token",
     "tokens", "asset", "assets", "debt", "collateral", "principal",
     "interest", "fee", "reward", "price", "rate", "liquidity", "reserve",
     "supply", "borrow", "lend", "stake", "deposit", "withdraw", "repay",
     "claim", "earned", "accrued", "owed", "due", "delta", "diff", "change",
     "input", "output", "in", "out"}

\* ADDRESS_PATTERNS, line 432
AddressWords ==
    {"to", "from", "recipient", "sender", "target", "dest", "destination",
     "owner", "spender", "operator", "pool", "vault", "token", "contract",
     "router", "factory", "pair", "oracle", "controller", "manager",
     "registry", "adapter", "strategy", "gauge", "staker", "delegatee",
     "borrower", "lender", "liquidator", "receiver"}

\* /^(word|word|...)_?[0-9]*$/i : the words hold no digit and no underscore,
\* so [0-9]* is the whole run of digits at the end and _? what precedes it
RECURSIVE StripDigits(_)
StripDigits(s) ==
    IF s # <<>> /\ s[Len(s)] \in Digits
    THEN StripDigits(SubSeq(s, 1, Len(s) - 1))
    ELSE s

TestWords(words, varName) ==
    LET stem == StripDigits(varName)
    IN \/ Str(ToLowerCase(stem)) \in words
       \/ /\ stem # <<>>
          /\ stem[Len(stem)] = "_"
          /\ Str(ToLowerCase(SubSeq(stem, 1, Len(stem) - 1))) \in words

\* /balance/i, tested before the amount words
balanceFirst(varName) == IncludesText(ToLowerCase(varName), "balance")

\* inferDefiTag(varName, typeName?), lines 993-1014
inferDefiTag(varName, typeName) ==
    IF Str(varName) = "msg.value" THEN "msg-value"
    ELSE IF Str(varName) = "msg.sender" THEN "msg-sender"
    ELSE IF balanceFirst(varName) THEN "balance"
    ELSE IF TestWords(AmountWords, varName) THEN "token-amount"
    ELSE IF TestWords(AddressWords, varName) \/ typeName = "address"
         THEN "address-target"
    ELSE Undefined

\* skipWords of extractVariablesFromExpression, lines 972-977
ExpressionSkipWords ==
    {"if", "else", "for", "while", "do", "return", "require", "assert",
     "revert", "emit", "new", "delete", "true", "false", "this", "super",
     "memory", "storage", "calldata", "public", "private", "internal",
     "external", "pure", "view", "payable", "abi", "type", "msg", "block",
     "tx"}

\* skipWords of extractUses, lines 755-761
UseSkipWords ==
    {"if", "else", "for", "while", "do", "return", "require", "assert",
     "revert", "emit", "new", "delete", "true", "false", "this", "super",
     "memory", "storage", "calldata", "public", "private", "internal",
     "external", "pure", "view", "payable", "virtual", "override", "indexed",
     "abi", "block", "tx", "gasleft", "blockhash", "type"}

RECURSIVE collectVariables(_, _, _)
collectVariables(ids, i, found) ==
    IF i > Len(ids) THEN found
    ELSE LET varName == Str(ids[i].text)
         IN collectVariables(ids, i + 1,
                IF varName \notin ExpressionSkipWords /\ ~Includes(found, varName)
                THEN Append(found, varName)
                ELSE found)

\* extractVariablesFromExpression(expression), lines 968-988
extractVariablesFromExpression(expression) ==
    collectVariables(identifiers(expression), 1, <<>>)

NoMatch == [ok |-> FALSE]

\* The type alternatives of declPattern that are one word:
\* uint\d* | int\d* | address | bool | bytes\d* | string | [A-Z][a-zA-Z0-9_]*
ElementaryType(w) ==
    \/ StartsWithAt(w, 1, "uint") /\ SkipDigits(w, 5) > Len(w)
    \/ StartsWithAt(w, 1, "int") /\ SkipDigits(w, 4) > Len(w)
    \/ Str(w) \in {"address", "bool", "string"}
    \/ StartsWithAt(w, 1, "bytes") /\ SkipDigits(w, 6) > Len(w)
    \/ w[1] \in Uppers

\* The last position of a declPattern type that starts at i, 0 if there is
\* none; \s+ follows, so a one-word type is a whole run of word characters,
\* and mapping\([^)]+\) closes at the first ")"
declTypeEnd(line, i) ==
    LET e == WordEnd(line, i)
        w == SubSeq(line, i, e)
        close == FindChar(line, e + 2, {")"})
    IN IF e < i THEN 0
       ELSE IF ElementaryType(w) THEN e
       ELSE IF Str(w) = "mapping" /\ At(line, e + 1) = "(" /\ close >= e + 3
            THEN close
       ELSE 0

\* ([a-z_][a-zA-Z0-9_]*)\s*[=;,)] at position j
declVarAt(line, j) ==
    LET e == WordEnd(line, j)
        p == SkipSpaces(line, e + 1)
    IN IF At(line, j) \in IdentStartChars /\ At(line, p) \in {"=", ";", ",", ")"}
       THEN [ok |-> TRUE, varName |-> SubSeq(line, j, e), end |-> p]
       ELSE NoMatch

\* declPattern, line 594, tried at position i.  The data location is taken
\* when a variable follows it, and is the variable itself otherwise.
declMatchAt(line, i) ==
    LET t == declTypeEnd(line, i)
        j == SkipSpaces(line, t + 1)
        le == WordEnd(line, j)
        k == SkipSpaces(line, le + 1)
        located == IF /\ Str(SubSeq(line, j, le)) \in {"memory", "storage", "calldata"}
                      /\ k > le + 1
                   THEN declVarAt(line, k)
                   ELSE NoMatch
        v == IF located.ok THEN located ELSE declVarAt(line, j)
    IN IF WordBoundary(line, i) /\ t # 0 /\ j > t + 1 /\ v.ok
       THEN [ok |-> TRUE, index |-> i - 1, typeName |-> SubSeq(line, i, t),
             varName |-> v.varName, end |-> v.end]
       ELSE NoMatch

\* assignPattern, line 665, tried at position i.  ([^;]+) needs one character:
\* when only white space stands before the ";" or the end, \s* gives its
\* last character back.
assignMatchAt(line, i) ==
    LET e == WordEnd(line, i)
        j == SkipSpaces(line, e + 1)
        compound == IsOperator(At(line, j)) /\ At(line, j + 1) = "="
        eq == IF compound THEN j + 1 ELSE j
        k == SkipSpaces(line, eq + 1)
        semi == FindChar(line, k, {";"})
        stop == IF semi = 0 THEN Len(line) ELSE semi - 1
        blank == k > Len(line) \/ At(line, k) = ";"
    IN IF /\ WordBoundary(line, i)
          /\ At(line, i) \in IdentStartChars
          /\ At(line, eq) = "="
          /\ eq < Len(line)
          /\ At(line, eq + 1) # ";"
       THEN [ok |-> TRUE, index |-> i - 1,
             targetVar |-> SubSeq(line, i, e),
             operator |-> IF compound THEN line[j] ELSE "",
             expression |-> IF blank THEN <<line[k - 1]>> ELSE SubSeq(line, k, stop),
             end |-> IF blank THEN k - 1 ELSE stop]
       ELSE NoMatch

\* \[[^\]]+\]\s*[+\-*\/]?= at position j: the position of the "=", 0 if none.
\* [^\]]+ ends at the first "]".
indexedAssignAt(line, j) ==
    LET close == FindChar(line, j + 1, {"]"})
        r == SkipSpaces(line, close + 1)
        eq == IF IsOperator(At(line, r)) /\ At(line, r + 1) = "=" THEN r + 1 ELSE r
    IN IF At(line, j) = "[" /\ close >= j + 2 /\ At(line, eq) = "="
       THEN eq
       ELSE 0

\* mappingWritePattern, line 723, tried at position i
mappingWriteMatchAt(line, i) ==
    LET e == WordEnd(line, i)
        eq == indexedAssignAt(line, SkipSpaces(line, e + 1))
    IN IF WordBoundary(line, i) /\ At(line, i) \in IdentStartChars /\ eq # 0
       THEN [ok |-> TRUE, index |-> i - 1, stateVar |-> SubSeq(line, i, e),
             end |-> eq]
       ELSE NoMatch

matchAt(pattern, line, i) ==
    CASE pattern = "declPattern" -> declMatchAt(line, i)
      [] pattern = "assignPattern" -> assignMatchAt(line, i)
      [] pattern = "mappingWritePattern" -> mappingWriteMatchAt(line, i)

\* while ((match = pattern.exec(line)) !== null): the matches of a /g pattern
\* from position `from` on; the search resumes after the last match.  Each
\* pattern begins with \b and a word character, so it is tried where a run of
\* word characters starts.
RECURSIVE execAll(_, _, _)
execAll(pattern, line, from) ==
    LET starts == {i \in from..Len(line) :
                      (line[i] \in WordChars) /\ ~(At(line, i - 1) \in WordChars)}
        first == CHOOSE i \in starts : \A j \in starts : i <= j
        m == matchAt(pattern, line, first)
    IN IF starts = {} THEN <<>>
       ELSE IF m.ok THEN <<m>> \o execAll(pattern, line, m.end + 1)
       ELSE execAll(pattern, line, first + 1)

\* The matches of a literal /g pattern (msg\.sender, ...): 0-based indices
RECURSIVE occurrences(_, _, _)
occurrences(line, w, from) ==
    LET i == IndexOfFrom(line, w, from)
    IN IF i = 0 THEN <<>>
       ELSE <<i - 1>> \o occurrences(line, w, i + Len(w))

\* tuplePattern, line 624: the leftmost "(" whose first ")" stands at least
\* one character later and is followed by \s*=
RECURSIVE tupleMatchFrom(_, _)
tupleMatchFrom(line, from) ==
    LET open == FindChar(line, from, {"("})
        close == FindChar(line, open + 1, {")"})
        inner == SubSeq(line, open + 1, close - 1)
    IN IF open = 0 THEN NoMatch
       ELSE IF close >= open + 2 /\ At(line, SkipSpaces(line, close + 1)) = "="
       THEN [ok |-> TRUE,
             group |-> IF TrimStart(inner) = <<>>
                       THEN <<inner[Len(inner)]>>
                       ELSE TrimStart(inner)]
       ELSE tupleMatchFrom(line, open + 1)

-----------------------------------------------------------------------------
(* DataFlowAnalyzer.analyze.  G is the graph under construction: the five  *)
(* collections analyze allocates, and the number of DataFlowNode objects   *)
(* created so far.  A node's id is its rank of creation: it stands for the *)
(* identity of the object, which edges and indices share with the list.    *)

DataFlowNode(id, varName, kind, line, column, isDefinition, typeName, defiTag) ==
    [id |-> id, varName |-> varName, kind |-> kind, line |-> line,
     column |-> column, isDefinition |-> isDefinition, typeName |-> typeName,
     defiTag |-> defiTag]

SinkInfo(kind, line, column, description, inputVars, callTarget) ==
    [kind |-> kind, line |-> line, column |-> column,
     description |-> description, inputVars |-> inputVars,
     callTarget |-> callTarget]

\* map.get(name).push(node), after map.set(name, []) if the key is new
MapPush(m, key, node) == MapSet(m, key, Append(MapGetOr(m, key, <<>>), node))

\* nodes.push(node); definitions.get(node.varName).push(node)
pushDefinition(G, node) ==
    [G EXCEPT !.nodes = Append(@, node),
              !.definitions = MapPush(@, node.varName, node),
              !.allocated = node.id]

\* nodes.push(node); uses.get(node.varName).push(node)
pushUse(G, node) ==
    [G EXCEPT !.nodes = Append(@, node),
              !.uses = MapPush(@, node.varName, node),
              !.allocated = node.id]

\* extractParameterDefinitions, lines 552-578
RECURSIVE extractParameterDefinitions(_, _, _, _)
extractParameterDefinitions(parameters, startLine, G, i) ==
    IF i > Len(parameters) THEN G
    ELSE LET param == parameters[i]
             node == DataFlowNode(G.allocated + 1, Str(param.name), "parameter",
                                  startLine, 0, TRUE, param.typeName,
                                  inferDefiTag(param.name, param.typeName))
         IN extractParameterDefinitions(parameters, startLine,
                IF param.name = <<>> THEN G ELSE pushDefinition(G, node), i + 1)

\* The loop over the matches of declPattern, lines 597-621
RECURSIVE declareAll(_, _, _, _, _)
declareAll(matches, i, lineNum, G, stateVars) ==
    IF i > Len(matches) THEN G
    ELSE LET match == matches[i]
             varName == Str(match.varName)
             typeName == Str(match.typeName)
             node == DataFlowNode(G.allocated + 1, varName, "local", lineNum,
                                  match.index, TRUE, typeName,
                                  inferDefiTag(match.varName, typeName))
         IN declareAll(matches, i + 1, lineNum,
                IF Includes(stateVars, varName) THEN G ELSE pushDefinition(G, node),
                stateVars)

\* The loop over the variables of a tuple, lines 628-648
RECURSIVE unpackAll(_, _, _, _, _, _)
unpackAll(tupleVars, i, line, lineNum, G, stateVars) ==
    IF i > Len(tupleVars) THEN G
    ELSE LET parts == SplitSpaces(Trim(tupleVars[i]))
             varName == parts[Len(parts)]
             node == DataFlowNode(G.allocated + 1, Str(varName), "local", lineNum,
                                  IndexOf(line, Str(varName)), TRUE, Undefined,
                                  inferDefiTag(varName,
                                      IF Len(parts) > 1 THEN Str(parts[1])
                                                        ELSE Undefined))
         IN unpackAll(tupleVars, i + 1, line, lineNum,
                IF IsIdentifier(varName) /\ ~Includes(stateVars, Str(varName))
                THEN pushDefinition(G, node)
                ELSE G,
                stateVars)

\* extractLocalDeclarations, lines 583-650
extractLocalDeclarations(line, lineNum, G, stateVars) ==
    LET declared == declareAll(execAll("declPattern", line, 1), 1, lineNum, G,
                               stateVars)
        tupleMatch == tupleMatchFrom(line, 1)
    IN IF tupleMatch.ok
       THEN unpackAll(Split(tupleMatch.group, ","), 1, line, lineNum, declared,
                      stateVars)
       ELSE declared

\* The loop over the variables of a right-hand side, lines 702-719
RECURSIVE addSourceEdges(_, _, _, _, _, _)
addSourceEdges(rhsVars, i, match, targetNode, isStateWrite, G) ==
    IF i > Len(rhsVars) THEN G
    ELSE LET sourceVar == rhsVars[i]
             sourceDefs == MapGetOr(G.definitions, sourceVar, <<>>)
             edge == [from |-> sourceDefs[Len(sourceDefs)],
                      to |-> targetNode,
                      edgeType |-> IF isStateWrite THEN "state-write" ELSE "assign",
                      transformation |-> IF match.operator # ""
                                         THEN match.operator \o "="
                                         ELSE Undefined]
         IN IF /\ ~IncludesText(match.expression, sourceVar \o "(")
               /\ sourceDefs # <<>>
            THEN addSourceEdges(rhsVars, i + 1, match, targetNode, isStateWrite,
                                [G EXCEPT !.edges = Append(@, edge)])
            ELSE addSourceEdges(rhsVars, i + 1, match, targetNode, isStateWrite, G)

\* The loop over the matches of assignPattern, lines 668-720
RECURSIVE assignAll(_, _, _, _, _)
assignAll(matches, i, lineNum, G, stateVars) ==
    IF i > Len(matches) THEN G
    ELSE LET match == matches[i]
             targetVar == Str(match.targetVar)
             isStateWrite == Includes(stateVars, targetVar)
             targetNode == DataFlowNode(G.allocated + 1, targetVar,
                                        IF isStateWrite THEN "state" ELSE "local",
                                        lineNum, match.index, TRUE, Undefined,
                                        inferDefiTag(match.targetVar, Undefined))
             existingDefs == MapGetOr(G.definitions, targetVar, <<>>)
             defined == IF ~isStateWrite /\ existingDefs = <<>>
                        THEN pushDefinition(G, targetNode)
                        ELSE [G EXCEPT !.allocated = targetNode.id]
         IN assignAll(matches, i + 1, lineNum,
                addSourceEdges(extractVariablesFromExpression(match.expression),
                               1, match, targetNode, isStateWrite, defined),
                stateVars)

\* The loop over the matches of mappingWritePattern, lines 724-737
RECURSIVE writeAll(_, _, _, _, _)
writeAll(matches, i, lineNum, G, stateVars) ==
    IF i > Len(matches) THEN G
    ELSE LET match == matches[i]
             stateVar == Str(match.stateVar)
             targetNode == DataFlowNode(G.allocated + 1, stateVar, "state", lineNum,
                                        match.index, TRUE, Undefined, Undefined)
         IN writeAll(matches, i + 1, lineNum,
                IF Includes(stateVars, stateVar)
                THEN [G EXCEPT !.nodes = Append(@, targetNode),
                               !.allocated = targetNode.id]
                ELSE G,
                stateVars)

\* extractAssignments, lines 655-738
extractAssignments(line, lineNum, G, stateVars) ==
    writeAll(execAll("mappingWritePattern", line, 1), 1, lineNum,
             assignAll(execAll("assignPattern", line, 1), 1, lineNum, G, stateVars),
             stateVars)

\* /^\s*[+\-*\/]?=(?!=)/.test(restOfLine), line 782
isDefinitionContext(restOfLine) ==
    LET r == SkipSpaces(restOfLine, 1)
        eq == IF IsOperator(At(restOfLine, r)) /\ At(restOfLine, r + 1) = "="
              THEN r + 1
              ELSE r
    IN At(restOfLine, eq) = "=" /\ At(restOfLine, eq + 1) # "="

\* The loop over the identifiers of a line, lines 766-802
RECURSIVE useAll(_, _, _, _, _, _, _)
useAll(ids, i, line, lineNum, G, seenOnLine, stateVars) ==
    IF i > Len(ids) THEN G
    ELSE LET varName == Str(ids[i].text)
             column == ids[i].index
             isDefined == MapHas(G.definitions, varName)
             isState == Includes(stateVars, varName)
             restOfLine == SubSeq(line, column + Len(ids[i].text) + 1, Len(line))
             defs == MapGetOr(G.definitions, varName, <<>>)
             node == DataFlowNode(G.allocated + 1, varName,
                                  IF isState THEN "state"
                                  ELSE IF defs # <<>> THEN defs[1].kind
                                  ELSE "local",
                                  lineNum, column, FALSE, Undefined,
                                  inferDefiTag(ids[i].text, Undefined))
         IN IF varName \in UseSkipWords \/ Includes(seenOnLine, varName)
            THEN useAll(ids, i + 1, line, lineNum, G, seenOnLine, stateVars)
            ELSE IF (isDefined \/ isState) /\ ~isDefinitionContext(restOfLine)
            THEN useAll(ids, i + 1, line, lineNum, pushUse(G, node),
                        SetAdd(seenOnLine, varName), stateVars)
            ELSE useAll(ids, i + 1, line, lineNum, G,
                        SetAdd(seenOnLine, varName), stateVars)

\* globals of extractSpecialGlobals, lines 817-825
SpecialGlobals ==
    << [name |-> "msg.value", kind |-> "msg", defiTag |-> "msg-value"],
       [name |-> "msg.sender", kind |-> "msg", defiTag |-> "msg-sender"],
       [name |-> "msg.data", kind |-> "msg", defiTag |-> Undefined],
       [name |-> "block.timestamp", kind |-> "block", defiTag |-> Undefined],
       [name |-> "block.number", kind |-> "block", defiTag |-> Undefined],
       [name |-> "tx.origin", kind |-> "tx", defiTag |-> Undefined],
       [name |-> "tx.gasprice", kind |-> "tx", defiTag |-> Undefined] >>

\* The loop over the matches of one global, lines 829-844
RECURSIVE globalUses(_, _, _, _, _)
globalUses(columns, i, global, lineNum, G) ==
    IF i > Len(columns) THEN G
    ELSE globalUses(columns, i + 1, global, lineNum,
            pushUse(G, DataFlowNode(G.allocated + 1, global.name, global.kind,
                                    lineNum, columns[i], FALSE, Undefined,
                                    global.defiTag)))

\* The loop over the globals, lines 827-845
RECURSIVE specialGlobalsFrom(_, _, _, _)
specialGlobalsFrom(line, lineNum, G, g) ==
    IF g > Len(SpecialGlobals) THEN G
    ELSE specialGlobalsFrom(line, lineNum,
            globalUses(occurrences(line, SpecialGlobals[g].name, 1), 1,
                       SpecialGlobals[g], lineNum, G),
            g + 1)

\* extractSpecialGlobals, lines 811-846
extractSpecialGlobals(line, lineNum, G) == specialGlobalsFrom(line, lineNum, G, 1)

\* extractUses, lines 743-806
extractUses(line, lineNum, G, stateVars) ==
    extractSpecialGlobals(line, lineNum,
        useAll(identifiers(line), 1, line, lineNum, G, <<>>, stateVars))

-----------------------------------------------------------------------------
(* DataFlowAnalyzer: sinks, flow edges, analyze                            *)

\* EXTERNAL_CALL_PATTERNS of the shape /\.name\s*\(/, lines 449-483
ExternalCallNames ==
    {"transfer", "send", "delegatecall", "staticcall", "safeTransfer",
     "safeTransferFrom", "safeApprove", "approve", "transferFrom", "mint",
     "burn", "deposit", "withdraw", "borrow", "repay", "swap", "liquidate",
     "stake", "unstake", "claim", "harvest", "compound", "redeem", "supply",
     "getReward", "execute", "multicall", "exactInput", "exactOutput",
     "addLiquidity", "removeLiquidity"}

\* One of EXTERNAL_CALL_PATTERNS matches at position i; the two other shapes
\* are /\.call\s*[{(]/ and /\.flash\w*\s*\(/
externalCallAt(line, i) ==
    LET e == WordEnd(line, i + 1)
        name == Str(SubSeq(line, i + 1, e))
        next == At(line, SkipSpaces(line, e + 1))
    IN /\ At(line, i) = "."
       /\ \/ name \in ExternalCallNames /\ next = "("
          \/ name = "call" /\ next \in {"{", "("}
          \/ StartsWithAt(line, i + 1, "flash") /\ next = "("

\* /\b([a-z_][a-zA-Z0-9_]*)\.(?:transfer|send|call|safeTransfer|approve)/
RECURSIVE callTargetFrom(_, _, _)
callTargetFrom(line, ids, i) ==
    IF i > Len(ids) THEN Undefined
    ELSE LET after == ids[i].index + Len(ids[i].text) + 1
         IN IF /\ At(line, after) = "."
               /\ \E w \in {"transfer", "send", "call", "safeTransfer", "approve"} :
                     StartsWithAt(line, after + 1, w)
            THEN Str(ids[i].text)
            ELSE callTargetFrom(line, ids, i + 1)

\* The external-call sink of a line, lines 858-873: one however many patterns
\* match
externalCallSinks(line, lineNum) ==
    IF \E i \in 1..Len(line) : externalCallAt(line, i)
    THEN <<SinkInfo("external-call", lineNum, 0, Str(Trim(line)),
                    extractVariablesFromExpression(line),
                    callTargetFrom(line, identifiers(line), 1))>>
    ELSE <<>>

\* /\breturn\s+([^;]+)/ tried at position i
returnMatchAt(line, i) ==
    LET k == SkipSpaces(line, i + 6)
        semi == FindChar(line, k, {";"})
        stop == IF semi = 0 THEN Len(line) ELSE semi - 1
        blank == k > Len(line) \/ At(line, k) = ";"
    IN IF /\ WordBoundary(line, i)
          /\ StartsWithAt(line, i, "return")
          /\ IsSpace(At(line, i + 6))
          /\ blank => k - 1 > i + 6
       THEN [ok |-> TRUE,
             group |-> IF blank THEN <<line[k - 1]>> ELSE SubSeq(line, k, stop)]
       ELSE NoMatch

\* /\bemit\s+([A-Z][a-zA-Z0-9_]*)\s*\(([^)]*)\)/ tried at position i
emitMatchAt(line, i) ==
    LET n == SkipSpaces(line, i + 4)
        e == WordEnd(line, n)
        open == SkipSpaces(line, e + 1)
        close == FindChar(line, open + 1, {")"})
    IN IF /\ WordBoundary(line, i)
          /\ StartsWithAt(line, i, "emit")
          /\ IsSpace(At(line, i + 4))
          /\ At(line, n) \in Uppers
          /\ At(line, open) = "("
          /\ close # 0
       THEN [ok |-> TRUE, name |-> SubSeq(line, n, e),
             group |-> SubSeq(line, open + 1, close - 1)]
       ELSE NoMatch

\* String.prototype.match without the g flag: the leftmost match
firstMatch(pattern, line) ==
    LET at(i) == IF pattern = "return" THEN returnMatchAt(line, i)
                                       ELSE emitMatchAt(line, i)
        hits == {i \in 1..Len(line) : at(i).ok}
    IN IF hits = {} THEN NoMatch
       ELSE at(CHOOSE i \in hits : \A j \in hits : i <= j)

\* The return sink of a line, lines 876-886
returnSinks(line, lineNum) ==
    LET returnMatch == firstMatch("return", line)
    IN IF returnMatch.ok
       THEN <<SinkInfo("return", lineNum, IndexOf(line, "return"),
                       "return " \o Str(Trim(returnMatch.group)),
                       extractVariablesFromExpression(returnMatch.group),
                       Undefined)>>
       ELSE <<>>

\* The event sink of a line, lines 889-899
emitSinks(line, lineNum) ==
    LET emitMatch == firstMatch("emit", line)
    IN IF emitMatch.ok
       THEN <<SinkInfo("event-emit", lineNum, IndexOf(line, "emit"),
                       "emit " \o Str(emitMatch.name) \o "(...)",
                       extractVariablesFromExpression(emitMatch.group),
                       Undefined)>>
       ELSE <<>>

\* new RegExp(`\\b${stateVar}\\s*[+\\-*\\/]?=`).test(line), lines 904-905
directAssign(line, stateVar) ==
    \E i \in 1..Len(line) :
        LET r == SkipSpaces(line, i + Len(stateVar))
            eq == IF IsOperator(At(line, r)) /\ At(line, r + 1) = "="
                  THEN r + 1
                  ELSE r
        IN /\ WordBoundary(line, i)
           /\ StartsWithAt(line, i, stateVar)
           /\ At(line, eq) = "="

\* new RegExp(`\\b${stateVar}\\s*\\[[^\\]]+\\]\\s*[+\\-*\\/]?=`).test(line),
\* lines 917-918
mappingWrite(line, stateVar) ==
    \E i \in 1..Len(line) :
        /\ WordBoundary(line, i)
        /\ StartsWithAt(line, i, stateVar)
        /\ indexedAssignAt(line, SkipSpaces(line, i + Len(stateVar))) # 0

\* The state-write sinks of a line for one field, lines 903-927
stateWriteSinksOf(line, lineNum, stateVar) ==
    LET Other(v) == v # stateVar
        inputVars == SelectSeq(extractVariablesFromExpression(line), Other)
        column == IndexOf(line, stateVar)
    IN (IF directAssign(line, stateVar)
        THEN <<SinkInfo("state-write", lineNum, column, stateVar \o " = ...",
                        inputVars, Undefined)>>
        ELSE <<>>)
       \o
       (IF mappingWrite(line, stateVar)
        THEN <<SinkInfo("state-write", lineNum, column, stateVar \o "[...] = ...",
                        inputVars, Undefined)>>
        ELSE <<>>)

\* The loop over the fields, lines 902-928
RECURSIVE stateWriteSinks(_, _, _, _)
stateWriteSinks(line, lineNum, stateVars, i) ==
    IF i > Len(stateVars) THEN <<>>
    ELSE stateWriteSinksOf(line, lineNum, stateVars[i])
         \o stateWriteSinks(line, lineNum, stateVars, i + 1)

\* extractSinks, lines 851-929
extractSinks(line, lineNum, G, stateVars) ==
    [G EXCEPT !.sinks = @ \o externalCallSinks(line, lineNum)
                          \o returnSinks(line, lineNum)
                          \o emitSinks(line, lineNum)
                          \o stateWriteSinks(line, lineNum, stateVars, 1)]

\* `defNode.line > mostRecentDef.line`, line 948
moreRecent_Never(defNode, mostRecentDef) == FALSE
moreRecent(defNode, mostRecentDef) == defNode.line > mostRecentDef.line

\* The loop over the definitions of a name, lines 945-952; mostRecentDef is
\* <<>> for null and <<node>> otherwise
RECURSIVE mostRecentDefinition(_, _, _, _)
mostRecentDefinition(defNodes, i, useNode, mostRecentDef) ==
    IF i > Len(defNodes) THEN mostRecentDef
    ELSE mostRecentDefinition(defNodes, i + 1, useNode,
            IF /\ defNodes[i].line <= useNode.line
               /\ \/ mostRecentDef = <<>>
                  \/ moreRecent(defNodes[i], mostRecentDef[1])
            THEN <<defNodes[i]>>
            ELSE mostRecentDef)

\* The loop over the uses of a name, lines 943-961
RECURSIVE useEdges(_, _, _)
useEdges(defNodes, useNodes, i) ==
    IF i > Len(useNodes) THEN <<>>
    ELSE LET mostRecentDef == mostRecentDefinition(defNodes, 1, useNodes[i], <<>>)
         IN (IF mostRecentDef # <<>>
             THEN <<[from |-> mostRecentDef[1], to |-> useNodes[i],
                     edgeType |-> "use", transformation |-> Undefined]>>
             ELSE <<>>)
            \o useEdges(defNodes, useNodes, i + 1)

\* The loop over the entries of `uses`, lines 939-962
RECURSIVE flowEdgesFrom(_, _, _)
flowEdgesFrom(definitions, uses, i) ==
    IF i > Len(uses) THEN <<>>
    ELSE useEdges(MapGetOr(definitions, uses[i].k, <<>>), uses[i].v, 1)
         \o flowEdgesFrom(definitions, uses, i + 1)

\* buildFlowEdges, lines 934-963
buildFlowEdges(G) ==
    [G EXCEPT !.edges = @ \o flowEdgesFrom(G.definitions, G.uses, 1)]

\* The loop over the lines, lines 520-535.  The graph after a line is
\* complete before the next line is read: a line that adds nothing hands on
\* the graph it was given.
RECURSIVE analyzeLines(_, _, _, _, _)
analyzeLines(lines, i, startLine, G, stateVars) ==
    IF i > Len(lines) THEN G
    ELSE LET lineNum == startLine + (i - 1)
             declared == extractLocalDeclarations(lines[i], lineNum, G, stateVars)
             assigned == extractAssignments(lines[i], lineNum, declared, stateVars)
             used == extractUses(lines[i], lineNum, assigned, stateVars)
             sunk == extractSinks(lines[i], lineNum, used, stateVars)
         IN IF sunk = G
            THEN analyzeLines(lines, i + 1, startLine, G, stateVars)
            ELSE analyzeLines(lines, i + 1, startLine, sunk, stateVars)

\* analyze(functionInfo, stateVariables), lines 506-547
analyze(func, stateVars) ==
    LET lines == Split(func.fullSource, "\n")
        startLine == func.location.start.line
        seeded == extractParameterDefinitions(func.parameters, startLine,
                      [nodes |-> <<>>, edges |-> <<>>, sinks |-> <<>>,
                       definitions |-> <<>>, uses |-> <<>>, allocated |-> 0], 1)
        G == buildFlowEdges(analyzeLines(lines, 1, startLine, seeded, stateVars))
    IN [nodes |-> G.nodes, edges |-> G.edges, sinks |-> G.sinks,
        definitions |-> G.definitions, uses |-> G.uses]

-----------------------------------------------------------------------------
(* DataFlowAnalyzer: the functions analyzed                                *)

\* Statements between the header and the closing brace of a function.
MaxBodyLines == 2

\* function f(uint256 amount_) public { balanceOf_[msg.sender] = amount_; }
SetBalanceSource ==
  <<
    "f", "u", "n", "c", "t", "i", "o", "n", " ", "f", "(", "u", "i", "n",
    "t", "2", "5", "6", " ", "a", "m", "o", "u", "n", "t", "_", ")", " ",
    "p", "u", "b", "l", "i", "c", " ", "{", " ", "b", "a", "l", "a", "n",
    "c", "e", "O", "f", "_", "[", "m", "s", "g", ".", "s", "e", "n", "d",
    "e", "r", "]", " ", "=", " ", "a", "m", "o", "u", "n", "t", "_", ";",
    " ", "}"
  >>

\* function g(address to, uint256 amount_) public {
HeaderLine ==
  <<
    "f", "u", "n", "c", "t", "i", "o", "n", " ", "g", "(", "a", "d", "d",
    "r", "e", "s", "s", " ", "t", "o", ",", " ", "u", "i", "n", "t", "2",
    "5", "6", " ", "a", "m", "o", "u", "n", "t", "_", ")", " ", "p", "u",
    "b", "l", "i", "c", " ", "{"
  >>

\* }
CloseLine ==
  <<
    "}"
  >>

\* amount_
AmountName ==
  <<
    "a", "m", "o", "u", "n", "t", "_"
  >>

\* to
ToName ==
  <<
    "t", "o"
  >>

\* token
TokenName ==
  <<
    "t", "o", "k", "e", "n"
  >>

\* function h(address token) public {
TokenHeaderLine ==
  <<
    "f", "u", "n", "c", "t", "i", "o", "n", " ", "h", "(", "a", "d", "d",
    "r", "e", "s", "s", " ", "t", "o", "k", "e", "n", ")", " ", "p", "u",
    "b", "l", "i", "c", " ", "{"
  >>

\* The statements a function body is made of
Statements ==
  <<
  \* balanceOf_[msg.sender] = amount_;
    <<
      " ", " ", " ", " ", "b", "a", "l", "a", "n", "c", "e", "O", "f", "_",
      "[", "m", "s", "g", ".", "s", "e", "n", "d", "e", "r", "]", " ", "=",
      " ", "a", "m", "o", "u", "n", "t", "_", ";"
    >>,
  \* balanceOf_[owners[to]] = amount_;
    <<
      " ", " ", " ", " ", "b", "a", "l", "a", "n", "c", "e", "O", "f", "_",
      "[", "o", "w", "n", "e", "r", "s", "[", "t", "o", "]", "]", " ", "=",
      " ", "a", "m", "o", "u", "n", "t", "_", ";"
    >>,
  \* uint256 fee = amount_ / 100;
    <<
      " ", " ", " ", " ", "u", "i", "n", "t", "2", "5", "6", " ", "f", "e",
      "e", " ", "=", " ", "a", "m", "o", "u", "n", "t", "_", " ", "/", " ",
      "1", "0", "0", ";"
    >>,
  \* (amount_, fee) = split(amount_);
    <<
      " ", " ", " ", " ", "(", "a", "m", "o", "u", "n", "t", "_", ",", " ",
      "f", "e", "e", ")", " ", "=", " ", "s", "p", "l", "i", "t", "(", "a",
      "m", "o", "u", "n", "t", "_", ")", ";"
    >>,
  \* total += fee;
    <<
      " ", " ", " ", " ", "t", "o", "t", "a", "l", " ", "+", "=", " ", "f",
      "e", "e", ";"
    >>,
  \* token.transfer(to, amount_);
    <<
      " ", " ", " ", " ", "t", "o", "k", "e", "n", ".", "t", "r", "a", "n",
      "s", "f", "e", "r", "(", "t", "o", ",", " ", "a", "m", "o", "u", "n",
      "t", "_", ")", ";"
    >>,
  \* return fee;
    <<
      " ", " ", " ", " ", "r", "e", "t", "u", "r", "n", " ", "f", "e", "e", ";"
    >>,
  \* emit Paid(to, fee);
    <<
      " ", " ", " ", " ", "e", "m", "i", "t", " ", "P", "a", "i", "d", "(",
      "t", "o", ",", " ", "f", "e", "e", ")", ";"
    >>,
  \* amount_ = amount_ + fee;
    <<
      " ", " ", " ", " ", "a", "m", "o", "u", "n", "t", "_", " ", "=", " ",
      "a", "m", "o", "u", "n", "t", "_", " ", "+", " ", "f", "e", "e", ";"
    >>,
  \* require(total == amount_);
    <<
      " ", " ", " ", " ", "r", "e", "q", "u", "i", "r", "e", "(", "t", "o",
      "t", "a", "l", " ", "=", "=", " ", "a", "m", "o", "u", "n", "t", "_",
      ")", ";"
    >>
  >>

\* Array.prototype.join("\n")
RECURSIVE JoinLines(_)
JoinLines(lines) ==
    IF Len(lines) = 1 THEN lines[1]
    ELSE lines[1] \o <<"\n">> \o JoinLines(Tail(lines))

ParameterInfo(name, typeName) == [name |-> name, typeName |-> typeName]

FunctionInfo(name, parameters, fullSource, startLine) ==
    [name |-> name, parameters |-> parameters, fullSource |-> fullSource,
     location |-> [start |-> [line |-> startLine]]]

\* The line of the source file a function starts on
StartLines == {1, 40}

\* A longer body: `uint256 fee = amount_ / 100;`, `amount_ = amount_ + fee;`,
\* `emit Paid(to, fee);`, in which amount_ and fee flow into each other
CompoundingBodies == {<<3, 9, 8>>}

\* amount_ = fee + pool.fee();
FeeOfPoolLine ==
  <<
    " ", " ", " ", " ", "a", "m", "o", "u", "n", "t", "_", " ", "=", " ",
    "f", "e", "e", " ", "+", " ", "p", "o", "o", "l", ".", "f", "e", "e",
    "(", ")", ";"
  >>

\* A body whose assignment reads a local and calls a member of its name:
\* `uint256 fee = amount_ / 100;`, `amount_ = fee + pool.fee();`
MemberCallBodies == {<<Statements[3], FeeOfPoolLine>>}

\* The one-line function f, the functions g of up to MaxBodyLines statements,
\* those of the longer bodies, those of the bodies with a member call, and the
\* function h, `token.transfer(to, amount_);` in its body
Functions ==
    {FunctionInfo("f", <<ParameterInfo(AmountName, "uint256")>>,
                  SetBalanceSource, l) : l \in StartLines}
    \cup
    {FunctionInfo("g", <<ParameterInfo(ToName, "address"),
                         ParameterInfo(AmountName, "uint256")>>,
                  JoinLines(<<HeaderLine>>
                            \o [i \in 1..Len(b) |-> Statements[b[i]]]
                            \o <<CloseLine>>), l) :
        b \in SeqsUpTo(1..Len(Statements), MaxBodyLines) \cup CompoundingBodies,
        l \in StartLines}
    \cup
    {FunctionInfo("g", <<ParameterInfo(ToName, "address"),
                         ParameterInfo(AmountName, "uint256")>>,
                  JoinLines(<<HeaderLine>> \o body \o <<CloseLine>>), l) :
        body \in MemberCallBodies, l \in StartLines}
    \cup
    {FunctionInfo("h", <<ParameterInfo(TokenName, "address")>>,
                  JoinLines(<<TokenHeaderLine, Statements[6], CloseLine>>), l) :
        l \in StartLines}

\* The field names of the enclosing contract, in declaration order
FieldSets == {<<>>, <<"balanceOf_">>, <<"balanceOf_", "total">>}

\* analyze(functionInfo, stateVariables), lines 506-547.  analyze keeps no
\* state between calls: a behaviour follows one call.
Analyze ==
    \E func \in Functions, stateVars \in FieldSets :
        \E returned \in {analyze(func, stateVars)} :
            /\ functionInfo = NoFunction
            /\ functionInfo' = func
            /\ stateVariables' = stateVars
            /\ graph' = returned
            /\ UNCHANGED <<rvars, flow, graphData, dataFlowGraph, wvars>>

NextAnalyzer ==
    \/ Analyze

SpecAnalyzer == Init /\ [][NextAnalyzer]_vars

-----------------------------------------------------------------------------
(* Backward tracing over the edges of a data-flow graph                     *)

\* !visited.has(edge.from.varName)
unvisited_Always(visited, varName) == TRUE

unvisited(visited, varName) == ~Includes(visited, varName)

\* traceBackward: T holds the visited Set and whether the call stack
\* overflowed; a call nested deeper than StackLimit raises RangeError, which
\* ends every enclosing loop
RECURSIVE traceBackward(_, _, _, _)
RECURSIVE traceBackwardFrom(_, _, _, _, _)
traceBackwardFrom(G, varName, T, depth, i) ==
    IF i > Len(G.edges) \/ T.overflow THEN T
    ELSE IF /\ G.edges[i].to.varName = varName
            /\ unvisited(T.visited, G.edges[i].from.varName)
    THEN LET from == G.edges[i].from.varName
             added == [T EXCEPT !.visited = SetAdd(@, from)]
             traced == traceBackward(G, from, added, depth + 1)
         IN traceBackwardFrom(G, varName, traced, depth, i + 1)
    ELSE traceBackwardFrom(G, varName, T, depth, i + 1)

traceBackward(G, varName, T, depth) ==
    IF depth > StackLimit THEN [T EXCEPT !.overflow = TRUE]
    ELSE traceBackwardFrom(G, varName, T, depth, 1)

\* getVariablesFlowingToSink: the loop over sink.inputVars
RECURSIVE traceInputs(_, _, _, _)
traceInputs(G, inputVars, T, i) ==
    IF i > Len(inputVars) \/ T.overflow THEN T
    ELSE LET added == [T EXCEPT !.visited = SetAdd(@, inputVars[i])]
             traced == traceBackward(G, inputVars[i], added, 1)
         IN traceInputs(G, inputVars, traced, i + 1)

getVariablesFlowingToSink(G, sink) ==
    traceInputs(G, sink.inputVars, [visited |-> <<>>, overflow |-> FALSE], 1)

GetVariablesFlowingToSink ==
    \E s \in 1..Len(graph.sinks) :
        \E returned \in {getVariablesFlowingToSink(graph, graph.sinks[s])} :
            /\ flow' = [call |-> "getVariablesFlowingToSink",
                        varName |-> Undefined,
                        before |-> <<>>,
                        visited |-> returned.visited,
                        targets |-> <<>>,
                        overflow |-> returned.overflow]
            /\ UNCHANGED <<rvars, functionInfo, stateVariables, graph,
                           graphData, dataFlowGraph, wvars>>

\* traceBackward called once more for a name of the Set that the last trace
\* left
TraceBackward ==
    \E i \in 1..Len(flow.visited) :
        \E returned \in {traceBackward(graph, flow.visited[i],
                            [visited |-> flow.visited, overflow |-> FALSE], 1)} :
            /\ ~flow.overflow
            /\ flow' = [call |-> "traceBackward",
                        varName |-> flow.visited[i],
                        before |-> flow.visited,
                        visited |-> returned.visited,
                        targets |-> <<>>,
                        overflow |-> returned.overflow]
            /\ UNCHANGED <<rvars, functionInfo, stateVariables, graph,
                           graphData, dataFlowGraph, wvars>>

NextTrace ==
    \/ Analyze
    \/ GetVariablesFlowingToSink
    \/ TraceBackward

SpecTrace == Init /\ [][NextTrace]_vars

-----------------------------------------------------------------------------
(* Workspaces in which two files declare a type of the same name           *)

\* Contract A is declared by two files, each record with its own directives;
\* the later record is abstract and declares no function
DuplicateSnapshots ==
    {<<Contract("I", "interface", <<>>, <<>>, <<Fn("m", 1, <<>>)>>),
       Contract("A", "contract", <<>>, dl[1], <<Fn("m", 1, <<"x">>)>>),
       Contract("L", "library", <<>>, <<>>, <<Fn("m", 1, <<"x">>)>>),
       Contract("M", "library", <<>>, <<>>, <<Fn("m", 1, <<"x">>)>>),
       Contract("A", "abstract", <<>>, dl[2], <<>>)>> :
        dl \in DirectiveLists(2, MaxDirectives)}

NextDuplicates ==
    \/ BuildInheritanceGraph(DuplicateSnapshots)
    \/ FindLibraryMethods

SpecDuplicates == Init /\ [][NextDuplicates]_vars

-----------------------------------------------------------------------------
(* The graph on its way to the webview                                      *)

\* Array.from(map.entries()): the [key, value] pairs in insertion order
RECURSIVE entries(_)
entries(map) ==
    IF map = <<>> THEN <<>>
    ELSE <<<<Head(map).k, Head(map).v>>>> \o entries(Tail(map))

\* new Map(pairs): the pairs set one after the other
RECURSIVE newMap(_)
newMap(pairs) ==
    IF pairs = <<>> THEN <<>>
    ELSE MapSet(newMap(SubSeq(pairs, 1, Len(pairs) - 1)),
                pairs[Len(pairs)][1], pairs[Len(pairs)][2])

\* serializeGraph with the pairs of the uses taken for the definitions too
serializeGraph_UsesTwice(G) ==
    [nodes |-> G.nodes, edges |-> G.edges, sinks |-> G.sinks,
     definitions |-> entries(G.uses), uses |-> entries(G.uses)]

\* serializeGraph, and serializeDataFlowGraph of the diagram generator
serializeGraph(G) ==
    [nodes |-> G.nodes, edges |-> G.edges, sinks |-> G.sinks,
     definitions |-> entries(G.definitions), uses |-> entries(G.uses)]

\* initDataFlow of the webview script
initDataFlow(data) ==
    [nodes |-> data.nodes, edges |-> data.edges, sinks |-> data.sinks,
     definitions |-> newMap(data.definitions), uses |-> newMap(data.uses)]

\* The generator serializes the graph of the analysis into the page
SerializeGraph ==
    /\ functionInfo # NoFunction
    /\ graphData' = <<serializeGraph(graph)>>
    /\ UNCHANGED <<rvars, functionInfo, stateVariables, graph, flow, dataFlowGraph,
                   wvars>>

\* The page calls initDataFlow(graphData); without data the script returns
InitDataFlow ==
    /\ graphData # <<>>
    /\ dataFlowGraph' = <<initDataFlow(graphData[1])>>
    /\ UNCHANGED <<rvars, functionInfo, stateVariables, graph, flow, graphData,
                   wvars>>

NextWebview ==
    \/ Analyze
    \/ SerializeGraph
    \/ InitDataFlow

SpecWebview == Init /\ [][NextWebview]_vars

-----------------------------------------------------------------------------
(* detectReentrancyPatterns: the state-write lines                          *)

\* lines 1046-1054, for the lines from the i-th on and, on the i-th line, the
\* fields from the j-th on: one entry per line and field that the line writes
RECURSIVE stateWriteLines(_, _, _, _, _)
stateWriteLines(lines, startLine, stateVars, i, j) ==
    IF i > Len(lines) THEN <<>>
    ELSE IF j > Len(stateVars)
    THEN stateWriteLines(lines, startLine, stateVars, i + 1, 1)
    ELSE IF directAssign(lines[i], stateVars[j]) \/ mappingWrite(lines[i], stateVars[j])
    THEN <<[line |-> startLine + (i - 1), varName |-> stateVars[j]]>>
         \o stateWriteLines(lines, startLine, stateVars, i, j + 1)
    ELSE stateWriteLines(lines, startLine, stateVars, i, j + 1)

-----------------------------------------------------------------------------
(* Forward tracing over the edges of a data-flow graph                      *)

\* traceForward, lines 1195-1212: T holds the targets array, the visited Set
\* and whether the call stack overflowed; a call nested deeper than StackLimit
\* raises RangeError, which ends every enclosing loop
RECURSIVE traceForward(_, _, _, _)
RECURSIVE traceForwardFrom(_, _, _, _, _)
traceForwardFrom(G, varName, T, depth, i) ==
    IF i > Len(G.edges) \/ T.overflow THEN T
    ELSE IF G.edges[i].from.varName = varName
    THEN LET pushed == [T EXCEPT !.targets = Append(@, G.edges[i].to)]
         IN IF G.edges[i].to.varName # varName
            THEN traceForwardFrom(G, varName,
                     traceForward(G, G.edges[i].to.varName, pushed, depth + 1),
                     depth, i + 1)
            ELSE traceForwardFrom(G, varName, pushed, depth, i + 1)
    ELSE traceForwardFrom(G, varName, T, depth, i + 1)

traceForward(G, varName, T, depth) ==
    IF depth > StackLimit THEN [T EXCEPT !.overflow = TRUE]
    ELSE IF Includes(T.visited, varName) THEN T
    ELSE traceForwardFrom(G, varName,
                          [T EXCEPT !.visited = SetAdd(@, varName)], depth, 1)

\* getVariableFlowTargets, lines 1183-1190
getVariableFlowTargets(G, varName) ==
    traceForward(G, varName,
                 [targets |-> <<>>, visited |-> <<>>, overflow |-> FALSE], 1)

\* getVariableFlowTargets called for a name of the definitions index of the
\* analyzed graph
GetVariableFlowTargets ==
    \E i \in 1..Len(graph.definitions) :
        \E returned \in {getVariableFlowTargets(graph, graph.definitions[i].k)} :
            /\ flow' = [call |-> "getVariableFlowTargets",
                        varName |-> graph.definitions[i].k,
                        before |-> <<>>,
                        visited |-> returned.visited,
                        targets |-> returned.targets,
                        overflow |-> returned.overflow]
            /\ UNCHANGED <<rvars, functionInfo, stateVariables, graph,
                           graphData, dataFlowGraph, wvars>>

NextForward ==
    \/ Analyze
    \/ GetVariableFlowTargets

SpecForward == Init /\ [][NextForward]_vars

-----------------------------------------------------------------------------
(* Workspaces whose contracts overload a method                             *)

\* The functions a contract may declare: none, m(x), m() and m(x) both with a
\* body, m() without a body and m(x) with one
Overloads ==
    {<<>>,
     <<Fn("m", 1, <<"x">>)>>,
     <<Fn("m", 0, <<"x">>), Fn("m", 1, <<"y">>)>>,
     <<Fn("m", 0, <<>>), Fn("m", 1, <<"x">>)>>}

OverloadSnapshots ==
    {<<Contract("I", "interface", <<>>, <<>>, <<Fn("m", 1, <<>>)>>),
       Contract("A", "contract", aBases, <<>>, aFuncs),
       Contract("B", bKind, bBases, <<>>, bFuncs)>> :
        aBases \in {<<>>, <<"I">>},
        aFuncs \in Overloads,
        bKind \in {"contract", "abstract"},
        bBases \in {<<>>, <<"A">>},
        bFuncs \in Overloads}

NextOverloads ==
    \/ BuildInheritanceGraph(OverloadSnapshots)
    \/ FindAllImplementations

SpecOverloads == Init /\ [][NextOverloads]_vars

-----------------------------------------------------------------------------
(* SyntaxHighlighter.findMatchingParen                                      *)

\* The longest line scanned
MaxLineLen == 5

\* The characters of a scanned line: brackets, both quotes, the backslash and
\* a character of no meaning to the scan
ParenChars == {"(", ")", "\"", "'", "\\", "a"}

\* `line[i] === '"' || line[i] === "'"`, line 532
opensString_Never(c) == FALSE

opensString(c) == c = "\"" \/ c = "'"

\* The inner loop, lines 536-539, from 0-based index i on: the index it stops
\* at; n counts the loop bodies executed
RECURSIVE skipString(_, _, _, _)
skipString(line, i, quote, n) ==
    IF i < Len(line) /\ line[i + 1] # quote
    THEN IF line[i + 1] = "\\"
         THEN skipString(line, i + 2, quote, n + 1)
         ELSE skipString(line, i + 1, quote, n + 1)
    ELSE [i |-> i, iterations |-> n]

\* The outer loop, lines 527-542, and the return of line 544
RECURSIVE scanParen(_, _, _, _)
scanParen(line, i, depth, n) ==
    IF ~(i < Len(line) /\ depth > 0)
    THEN [value |-> IF depth = 0 THEN i - 1 ELSE -1, iterations |-> n]
    ELSE IF line[i + 1] = "("
    THEN scanParen(line, i + 1, depth + 1, n + 1)
    ELSE IF line[i + 1] = ")"
    THEN scanParen(line, i + 1, depth - 1, n + 1)
    ELSE IF opensString(line[i + 1])
    THEN LET skipped == skipString(line, i + 1, line[i + 1], n + 1)
         IN scanParen(line, skipped.i + 1, depth, skipped.iterations)
    ELSE scanParen(line, i + 1, depth, n + 1)

\* findMatchingParen(line, openPos), lines 521-545; openPos is 0-based
findMatchingParen(line, openPos) ==
    IF At(line, openPos + 1) # "("
    THEN [value |-> -1, iterations |-> 0]
    ELSE scanParen(line, openPos + 1, 1, 0)

\* findMatchingParen called for a line and a position of it or the one after
\* its end.  The function keeps no state: a behaviour follows one call.
FindMatchingParen ==
    /\ call.op = "new"
    /\ \E line \in SeqsUpTo(ParenChars, MaxLineLen) :
          \E openPos \in 0..Len(line) :
             Returns("findMatchingParen", line, openPos, Undefined,
                     [value |-> findMatchingParen(line, openPos),
                      error |-> "none"])

NextParen ==
    \/ FindMatchingParen

SpecParen == Init /\ [][NextParen]_vars

-----------------------------------------------------------------------------
(* The webview script: hover and click on flow variables                    *)

\* The data-var attributes of the page's .flow-var elements: the names of the
\* graph, and "" for an element without the attribute
FlowVars ==
    IF dataFlowGraph = <<>> THEN {""}
    ELSE {dataFlowGraph[1].definitions[i].k :
             i \in 1..Len(dataFlowGraph[1].definitions)}
         \cup {dataFlowGraph[1].uses[i].k : i \in 1..Len(dataFlowGraph[1].uses)}
         \cup {""}

\* highlightVariable, lines 123-157: the page holds the highlight classes of
\* the name; line 152 marks at least the element hovered or clicked
highlightVariable(marked, varName) ==
    IF dataFlowGraph = <<>> THEN marked ELSE marked \cup {varName}

\* clearHighlights, lines 180-190
clearHighlights(marked) == {}

\* showTooltip, lines 195-327: the tooltip shown replaces the one before
showTooltip(shown, varName, locked) ==
    IF dataFlowGraph = <<>> THEN shown
    ELSE <<[varName |-> varName, locked |-> locked]>>

\* hideTooltip, lines 332-337
hideTooltip(shown) == <<>>

\* The state outside the webview script
pageVars == <<rvars, avars, pvars>>

\* handleMouseEnter, lines 73-82; the listeners exist once initDataFlow has run
HandleMouseEnter ==
    \E varName \in FlowVars :
        /\ dataFlowGraph # <<>>
        /\ IF isLocked \/ varName = ""
           THEN UNCHANGED <<activeVariable, tooltip, isLocked, highlighted>>
           ELSE /\ activeVariable' = <<varName>>
                /\ highlighted' = highlightVariable(highlighted, varName)
                /\ tooltip' = showTooltip(tooltip, varName, FALSE)
                /\ UNCHANGED isLocked
        /\ UNCHANGED pageVars

\* handleMouseLeave, lines 87-93
HandleMouseLeave ==
    /\ dataFlowGraph # <<>>
    /\ IF isLocked
       THEN UNCHANGED <<activeVariable, tooltip, isLocked, highlighted>>
       ELSE /\ highlighted' = clearHighlights(highlighted)
            /\ tooltip' = hideTooltip(tooltip)
            /\ activeVariable' = <<>>
            /\ UNCHANGED isLocked
    /\ UNCHANGED pageVars

\* handleClick, lines 98-118; stopPropagation keeps the click from document
HandleClick ==
    \E varName \in FlowVars :
        /\ dataFlowGraph # <<>>
        /\ IF varName = ""
           THEN UNCHANGED <<activeVariable, tooltip, isLocked, highlighted>>
           ELSE IF isLocked /\ activeVariable = <<varName>>
           THEN /\ highlighted' = clearHighlights(highlighted)
                /\ tooltip' = hideTooltip(tooltip)
                /\ isLocked' = FALSE
                /\ activeVariable' = <<>>
           ELSE /\ highlighted' = highlightVariable(clearHighlights(highlighted),
                                                    varName)
                /\ activeVariable' = <<varName>>
                /\ tooltip' = showTooltip(tooltip, varName, TRUE)
                /\ isLocked' = TRUE
        /\ UNCHANGED pageVars

\* The click listener of document, lines 54-59, for a click that no flow
\* variable received: on the tooltip when one is shown, or elsewhere
DocumentClick ==
    \E target \in {"tooltip", "elsewhere"} :
        /\ dataFlowGraph # <<>>
        /\ target = "tooltip" => tooltip # <<>>
        /\ IF isLocked /\ target # "tooltip"
           THEN /\ highlighted' = clearHighlights(highlighted)
                /\ isLocked' = FALSE
                /\ UNCHANGED <<activeVariable, tooltip>>
           ELSE UNCHANGED <<activeVariable, tooltip, isLocked, highlighted>>
        /\ UNCHANGED pageVars

\* The keydown listener of document, lines 62-67
DocumentKeyDown ==
    \E key \in {"Escape", "a"} :
        /\ dataFlowGraph # <<>>
        /\ IF key = "Escape" /\ isLocked
           THEN /\ highlighted' = clearHighlights(highlighted)
                /\ isLocked' = FALSE
                /\ UNCHANGED <<activeVariable, tooltip>>
           ELSE UNCHANGED <<activeVariable, tooltip, isLocked, highlighted>>
        /\ UNCHANGED pageVars

NextVisualizer ==
    \/ Analyze
    \/ SerializeGraph
    \/ InitDataFlow
    \/ HandleMouseEnter
    \/ HandleMouseLeave
    \/ HandleClick
    \/ DocumentClick
    \/ DocumentKeyDown

SpecVisualizer == Init /\ [][NextVisualizer]_vars

-----------------------------------------------------------------------------
(* The webview provider: asynchronous handlers on one shared resolver       *)

\* What getWorkspaceFiles, lines 526-550, may resolve to: the workspace at
\* some moment
ProviderSnapshots ==
    {<<>>,
     <<Contract("I", "interface", <<>>, <<>>, <<Fn("m", 1, <<>>)>>),
       Contract("A", "contract", <<"I">>, <<>>, <<Fn("m", 1, <<"x">>)>>)>>,
     <<Contract("I", "interface", <<>>, <<>>, <<Fn("m", 1, <<>>)>>),
       Contract("A", "contract", <<"I">>,
                <<[libraryName |-> "L", forType |-> "I"]>>,
                <<Fn("m", 1, <<"x">>)>>),
       Contract("B", "contract", <<"I">>, <<>>, <<Fn("m", 1, <<"x">>)>>),
       Contract("L", "library", <<>>, <<>>, <<Fn("m", 1, <<"x">>)>>)>>}

\* The interfaceName and methodName of a findImplementations message
ProviderMessages == {<<"I", "m">>, <<"Z", "m">>}

Handler(kind, pc, message, fetched) ==
    [kind |-> kind, pc |-> pc, message |-> message, fetched |-> fetched]

\* A callback runs until its next await or its return: while a handler is
\* between lines 403 and 407, which hold no await, no other callback starts
NoneRunning == \A h \in 1..MaxHandlers : handlers[h].pc # "built"

\* The handler slot a new call takes
Free(h) ==
    /\ NoneRunning
    /\ handlers[h].pc = "idle"
    /\ \A g \in 1..(h - 1) : handlers[g].pc # "idle"

\* findContractForFunction(analysis.function, workspaceFilesCache).name for
\* a function of contract A, or '' when no contract holds the function
ContractNamesOf(contracts) ==
    {contracts[i].name : i \in {j \in 1..Len(contracts) : contracts[j].name = "A"}}
    \cup {""}

\* this.currentContractName || undefined
contextOf(name) == IF name = "" THEN Undefined ELSE name

\* this.workspaceFilesCache = await this.getWorkspaceFiles();
\* this.inheritanceResolver.buildInheritanceGraph(this.workspaceFilesCache):
\* handler h continues with the contracts its getWorkspaceFiles resolved to
BuildFetched(h, contracts, next) ==
    LET g == buildInheritanceGraph(Resolver, contracts)
    IN /\ workspaceFilesCache' = contracts
       /\ files' = contracts
       /\ built' = TRUE
       /\ contractMap' = g.contractMap
       /\ inheritedBy' = g.inheritedBy
       /\ inheritanceChains' = g.inheritanceChains
       /\ typeToLibraries' = g.typeToLibraries
       /\ contractUsingDirectives' = g.contractUsingDirectives
       /\ call' = Call("buildInheritanceGraph", Undefined, Undefined, Undefined)
       /\ result' = <<>>
       /\ error' = IF g.overflow THEN "RangeError" ELSE "none"
       /\ handlers' = [handlers EXCEPT ![h] =
                          IF g.overflow THEN IdleHandler ELSE next]

\* showDiagram is called, line 62: await this.analyzer.analyze(...)
ShowDiagram ==
    \E h \in 1..MaxHandlers :
        /\ Free(h)
        /\ handlers' = [handlers EXCEPT ![h] =
                           Handler("showDiagram", "analyzing", <<>>, <<>>)]
        /\ UNCHANGED <<rvars, avars, uivars, currentPanel, currentContractName,
                       workspaceFilesCache>>

\* showDiagram, lines 64-122: up to await this.getWorkspaceFiles()
ShowDiagramAnalyzed ==
    \E h \in 1..MaxHandlers, found \in BOOLEAN :
        /\ NoneRunning
        /\ handlers[h].kind = "showDiagram"
        /\ handlers[h].pc = "analyzing"
        /\ IF found
           THEN /\ currentPanel' = TRUE
                /\ handlers' = [handlers EXCEPT ![h].pc = "fetching"]
           ELSE /\ handlers' = [handlers EXCEPT ![h] = IdleHandler]
                /\ UNCHANGED currentPanel
        /\ UNCHANGED <<rvars, avars, uivars, currentContractName,
                       workspaceFilesCache>>

\* showDiagram, lines 122-154: from the assignment of the cache to the end
ShowDiagramResumed ==
    \E h \in 1..MaxHandlers, contracts \in ProviderSnapshots :
        \E name \in ContractNamesOf(contracts) :
            /\ NoneRunning
            /\ handlers[h].kind = "showDiagram"
            /\ handlers[h].pc = "fetching"
            /\ BuildFetched(h, contracts, IdleHandler)
            /\ currentContractName' = IF error' = "none" THEN name
                                      ELSE currentContractName
            /\ UNCHANGED <<avars, uivars, currentPanel>>

\* refresh, lines 627-631: up to await this.analyzer.analyze(...)
Refresh ==
    \E h \in 1..MaxHandlers :
        /\ Free(h)
        /\ currentPanel
        /\ handlers' = [handlers EXCEPT ![h] =
                           Handler("refresh", "analyzing", <<>>, <<>>)]
        /\ UNCHANGED <<rvars, avars, uivars, currentPanel, currentContractName,
                       workspaceFilesCache>>

\* refresh, lines 631-634: up to await this.getWorkspaceFiles()
RefreshAnalyzed ==
    \E h \in 1..MaxHandlers, found \in BOOLEAN :
        /\ NoneRunning
        /\ handlers[h].kind = "refresh"
        /\ handlers[h].pc = "analyzing"
        /\ handlers' = [handlers EXCEPT ![h] =
                           IF found THEN [@ EXCEPT !.pc = "fetching"]
                           ELSE IdleHandler]
        /\ UNCHANGED <<rvars, avars, uivars, currentPanel, currentContractName,
                       workspaceFilesCache>>

\* refresh, lines 634-650: the contract name is kept when none is found
RefreshResumed ==
    \E h \in 1..MaxHandlers, contracts \in ProviderSnapshots :
        \E name \in ContractNamesOf(contracts) :
            /\ NoneRunning
            /\ handlers[h].kind = "refresh"
            /\ handlers[h].pc = "fetching"
            /\ workspaceFilesCache' = contracts
            /\ currentContractName' = IF name = "" THEN currentContractName
                                      ELSE name
            /\ handlers' = [handlers EXCEPT ![h] = IdleHandler]
            /\ UNCHANGED <<rvars, avars, uivars, currentPanel>>

\* handleImportRequest, lines 186-193: up to await this.getWorkspaceFiles()
HandleImportRequest ==
    \E h \in 1..MaxHandlers :
        /\ Free(h)
        /\ currentPanel
        /\ handlers' = [handlers EXCEPT ![h] =
                           Handler("importRequest", "fetching", <<>>, <<>>)]
        /\ UNCHANGED <<rvars, avars, uivars, currentPanel, currentContractName,
                       workspaceFilesCache>>

\* handleImportRequest, lines 193-203: up to the await of the resolve call
ImportRequestResumed ==
    \E h \in 1..MaxHandlers, contracts \in ProviderSnapshots :
        /\ NoneRunning
        /\ handlers[h].kind = "importRequest"
        /\ handlers[h].pc = "fetching"
        /\ workspaceFilesCache' = contracts
        /\ handlers' = [handlers EXCEPT ![h].pc = "resolving"]
        /\ UNCHANGED <<rvars, avars, uivars, currentPanel, currentContractName>>

\* handleImportRequest, lines 206-222: the response is posted
ImportRequestResolved ==
    \E h \in 1..MaxHandlers :
        /\ NoneRunning
        /\ handlers[h].pc = "resolving"
        /\ handlers' = [handlers EXCEPT ![h] = IdleHandler]
        /\ UNCHANGED <<rvars, avars, uivars, currentPanel, currentContractName,
                       workspaceFilesCache>>

\* handleFindImplementations, lines 393-402: up to await getWorkspaceFiles()
HandleFindImplementations ==
    \E h \in 1..MaxHandlers, message \in ProviderMessages :
        /\ Free(h)
        /\ currentPanel
        /\ handlers' = [handlers EXCEPT ![h] =
                           Handler("findImplementations", "fetching", message, <<>>)]
        /\ UNCHANGED <<rvars, avars, uivars, currentPanel, currentContractName,
                       workspaceFilesCache>>

\* handleFindImplementations, lines 402-403: the cache is assigned and the
\* graph rebuilt
FindImplementationsBuild(h) ==
    \E contracts \in ProviderSnapshots :
        /\ NoneRunning
        /\ handlers[h].kind = "findImplementations"
        /\ handlers[h].pc = "fetching"
        /\ BuildFetched(h, contracts,
                        [handlers[h] EXCEPT !.pc = "built",
                                            !.fetched = <<contracts>>])
        /\ UNCHANGED <<avars, uivars, currentPanel, currentContractName>>

\* What the query of lines 407-411 returns to handler h
implementationsFor(h) ==
    findAllImplementations(Resolver, handlers[h].message[1], handlers[h].message[2],
                           contextOf(currentContractName))

\* handleFindImplementations, lines 407-446: the query, then the error
\* message, the await of importImplementation, or the picker
FindImplementationsQuery(h) ==
    LET implementations == implementationsFor(h)
    IN /\ handlers[h].pc = "built"
       /\ call' = Call("findAllImplementations", handlers[h].message[1],
                       handlers[h].message[2], contextOf(currentContractName))
       /\ result' = implementations.value
       /\ error' = implementations.error
       /\ handlers' = [handlers EXCEPT ![h] =
                          IF /\ implementations.error = "none"
                             /\ Len(implementations.value) = 1
                          THEN Handler("findImplementations", "importing", <<>>, <<>>)
                          ELSE IdleHandler]
       /\ UNCHANGED <<maps, avars, uivars, currentPanel, currentContractName,
                      workspaceFilesCache>>

HandleFindImplementationsResumed ==
    \E h \in 1..MaxHandlers :
        \/ FindImplementationsBuild(h)
        \/ FindImplementationsQuery(h)

\* importImplementation, awaited at line 424, returns
ImplementationImported ==
    \E h \in 1..MaxHandlers :
        /\ NoneRunning
        /\ handlers[h].pc = "importing"
        /\ handlers' = [handlers EXCEPT ![h] = IdleHandler]
        /\ UNCHANGED <<rvars, avars, uivars, currentPanel, currentContractName,
                       workspaceFilesCache>>

\* onDidDispose, lines 87-89: the user closes the panel
PanelDisposed ==
    /\ NoneRunning
    /\ currentPanel
    /\ currentPanel' = FALSE
    /\ UNCHANGED <<rvars, avars, uivars, currentContractName,
                   workspaceFilesCache, handlers>>

NextProvider ==
    \/ ShowDiagram
    \/ ShowDiagramAnalyzed
    \/ ShowDiagramResumed
    \/ Refresh
    \/ RefreshAnalyzed
    \/ RefreshResumed
    \/ HandleImportRequest
    \/ ImportRequestResumed
    \/ ImportRequestResolved
    \/ HandleFindImplementations
    \/ HandleFindImplementationsResumed
    \/ ImplementationImported
    \/ PanelDisposed

SpecProvider == Init /\ [][NextProvider]_vars

-----------------------------------------------------------------------------
(* Claims about the inheritance graph                                      *)

NoRepeat(s) == \A i, j \in 1..Len(s) : s[i] = s[j] => i = j

BasesOf(name) == IF MapHas(contractMap, name)
                 THEN MapGet(contractMap, name).baseContracts ELSE <<>>

\* C1: after buildInheritanceGraph, every indexed type T has a chain, T is at
\* position 0 of it (and nowhere else), and the chain repeats no name.
C1_ChainStartsWithSelfNoRepeat ==
    built =>
        \A i \in 1..Len(contractMap) :
            LET T == contractMap[i].k
            IN /\ MapHas(inheritanceChains, T)
               /\ LET chain == MapGet(inheritanceChains, T)
                  IN /\ Len(chain) >= 1
                     /\ chain[1] = T
                     /\ \A j \in 2..Len(chain) : chain[j] # T
                     /\ NoRepeat(chain)

\* C1 witness: A is I, B and B is I: I is reached twice from A, listed once.
C1_DiamondBuilt ==
    /\ built
    /\ BasesOf("A") = <<"I", "B">>
    /\ BasesOf("B") = <<"I">>
    /\ MapHas(inheritanceChains, "A")
    /\ MapGet(inheritanceChains, "A") = <<"A", "I", "B">>

\* Two indexed types that declare each other as a base.
Cyclic(X, Y) ==
    /\ X # Y
    /\ MapHas(contractMap, X) /\ MapHas(contractMap, Y)
    /\ Includes(BasesOf(X), Y) /\ Includes(BasesOf(Y), X)

\* C8: on a workspace with A inherits B, B inherits A the build returns (no
\* stack overflow), and the chains of A and of B are finite (no longer than
\* the names the workspace mentions) and repeat no name.
C8_CyclicBuildTerminates ==
    (call.op = "buildInheritanceGraph" /\ \E X, Y \in Range(TypeNames) : Cyclic(X, Y)) =>
        /\ error = "none"
        /\ \A X, Y \in Range(TypeNames) :
              Cyclic(X, Y) =>
                 /\ MapHas(inheritanceChains, X)
                 /\ Len(MapGet(inheritanceChains, X)) <= Len(TypeNames)
                 /\ NoRepeat(MapGet(inheritanceChains, X))
                 /\ Includes(MapGet(inheritanceChains, X), Y)

\* C8 witness: the build of A is B, B is A has returned with both chains.
C8_CycleBuilt ==
    /\ call.op = "buildInheritanceGraph"
    /\ Cyclic("A", "B")
    /\ MapGet(inheritanceChains, "A") = <<"A", "B">>
    /\ MapGet(inheritanceChains, "B") = <<"B", "A">>

\* C2 (as claimed): getImplementingContracts and findImplementations return a
\* list, without raising, on every workspace.
C2_QueriesNeverRaise ==
    call.op \in {"getImplementingContracts", "findImplementations"} => error = "none"

\* Some character of s is not white space.
NonBlank(s) == \E i \in 1..Len(s) : s[i] \notin {" ", "\t", "\n", "\r"}

\* C5: no result of findImplementations is of kind interface, and each one's
\* function has a body that is not blank.
C5_ImplementationsAreConcrete ==
    call.op = "findImplementations" =>
        \A i \in 1..Len(result) :
            /\ result[i].contractKind # "interface"
            /\ NonBlank(result[i].functionInfo.body)
            /\ MapGet(contractMap, result[i].contractName).kind # "interface"

\* C5 witness: a result found past an interface that carries a body and past a
\* contract whose body is blank.
C5_SkippedInterfaceAndBlank ==
    /\ call.op = "findImplementations"
    /\ Len(result) = 1
    /\ result[1].contractName = "B"
    /\ result[1].inheritanceChain = <<"A", "I", "B">>
    /\ MapGet(contractMap, "I").functions[1].body = <<"x">>
    /\ MapGet(contractMap, "A").functions[1].body = <<" ">>

-----------------------------------------------------------------------------
(* Claims about library methods and findAllImplementations                 *)

ContractNames(impls) == [i \in 1..Len(impls) |-> impls[i].contractName]

\* C6 (as claimed): no library name appears in two results of
\* findLibraryMethods, whatever directives the context contract declares.
C6_LibraryResultsDistinct ==
    call.op = "findLibraryMethods" => NoRepeat(ContractNames(result))

\* Type `name` is indexed, is not an interface and declares a function named
\* methodName whose body is not blank.
DeclaresImplementation(name, methodName) ==
    /\ MapHas(contractMap, name)
    /\ MapGet(contractMap, name).kind # "interface"
    /\ \E j \in 1..Len(MapGet(contractMap, name).functions) :
          /\ MapGet(contractMap, name).functions[j].name = methodName
          /\ NonBlank(MapGet(contractMap, name).functions[j].body)

\* C7: findAllImplementations returns the library results followed by the
\* interface results when one of the two is not empty, and otherwise the
\* fallback: exactly the non-interface types that declare methodName with a
\* body; fallback entries never accompany library or interface results.
C7_LibraryThenInterfaceElseFallback ==
    (call.op = "findAllImplementations" /\ error = "none") =>
        LET lib == findLibraryMethods(Resolver, call.a1, call.a2, call.a3)
            ifc == findImplementations(Resolver, call.a1, call.a2).value
        IN IF Len(lib) + Len(ifc) > 0
           THEN result = lib \o ifc
           ELSE /\ \A i \in 1..Len(result) :
                      /\ DeclaresImplementation(result[i].contractName, call.a2)
                      /\ result[i].isInherited = FALSE
                /\ \A n \in Range(LibraryNames) :
                      DeclaresImplementation(n, call.a2) =>
                          Includes(ContractNames(result), n)
                /\ NoRepeat(ContractNames(result))

\* C7 witness: a library result followed by an interface result, while a third
\* type (M) that only the fallback would list is left out.
C7_LibraryThenInterface ==
    /\ call.op = "findAllImplementations"
    /\ ContractNames(result) = <<"L", "A">>
    /\ result[1].contractKind = "library"
    /\ DeclaresImplementation("M", call.a2)

\* The workspace with directive d put at position pos of contract ctx's list.
Widened(contracts, ctx, d, pos) ==
    [i \in 1..Len(contracts) |->
        IF contracts[i].name = ctx
        THEN [contracts[i] EXCEPT !.usingDirectives =
                 SubSeq(@, 1, pos - 1) \o <<d>> \o SubSeq(@, pos, Len(@))]
        ELSE contracts[i]]

DirectivesOf(ctx) == MapGet(contractMap, ctx).usingDirectives

\* Results of the two declared relationships, without the fallback.
DeclaredCount(R, t, m, c) ==
    Len(findLibraryMethods(R, t, m, c)) + Len(findImplementations(R, t, m).value)

\* C3 (as claimed): widening the context contract's directives and rebuilding
\* never decreases the number of results of findAllImplementations.
C3_WideningNeverDecreases ==
    (call.op = "findAllImplementations" /\ MapHas(contractMap, call.a3)) =>
        \A d \in Directives, pos \in 1..(Len(DirectivesOf(call.a3)) + 1) :
            LET R2 == buildInheritanceGraph(NewResolver, Widened(files, call.a3, d, pos))
            IN Len(findAllImplementations(R2, call.a1, call.a2, call.a3).value)
                   >= Len(result)

\* C3 (amended): widening never decreases the number of library plus interface
\* results, so the result count can only drop when the narrower result was
\* the global fallback.
C3_WideningNeverDecreasesDeclared ==
    (call.op = "findAllImplementations" /\ MapHas(contractMap, call.a3)) =>
        \A d \in Directives, pos \in 1..(Len(DirectivesOf(call.a3)) + 1) :
            LET R2 == buildInheritanceGraph(NewResolver, Widened(files, call.a3, d, pos))
                before == DeclaredCount(Resolver, call.a1, call.a2, call.a3)
            IN /\ DeclaredCount(R2, call.a1, call.a2, call.a3) >= before
               /\ before > 0 =>
                     Len(findAllImplementations(R2, call.a1, call.a2, call.a3).value)
                         >= Len(result)

\* C3 witness: a context contract with a directive of its own, a result that is
\* not the fallback, and a widening that adds a result.
C3_WideningAddsResult ==
    /\ call.op = "findAllImplementations"
    /\ MapHas(contractMap, call.a3)
    /\ Len(DirectivesOf(call.a3)) = 1
    /\ DeclaredCount(Resolver, call.a1, call.a2, call.a3) = Len(result)
    /\ Len(result) > 0
    /\ \E d \in Directives :
          Len(findAllImplementations(
                  buildInheritanceGraph(NewResolver, Widened(files, call.a3, d, 2)),
                  call.a1, call.a2, call.a3).value) > Len(result)

\* No contract is named n, inherits n or attaches a library to n.
AbsentType(n) ==
    /\ ~MapHas(contractMap, n)
    /\ ~MapHas(inheritedBy, n)
    /\ ~MapHas(typeToLibraries, n)

\* No contract declares a function named m.
AbsentMethod(m) ==
    \A i \in 1..Len(contractMap) :
        \A j \in 1..Len(contractMap[i].v.functions) :
            contractMap[i].v.functions[j].name # m

\* C4 (as claimed): asked for a type or a method the workspace does not hold,
\* findImplementations, findLibraryMethods and findAllImplementations return
\* an empty collection and raise nothing.
C4_AbsentGivesEmpty ==
    (/\ call.op \in {"findImplementations", "findLibraryMethods",
                     "findAllImplementations"}
     /\ AbsentType(call.a1) \/ AbsentMethod(call.a2)) =>
        /\ error = "none"
        /\ result = <<>>

-----------------------------------------------------------------------------
(* Claims about the data-flow graph                                        *)

\* The nodes of the graph that satisfy a test
NodesWhere(Test(_)) == {i \in 1..Len(graph.nodes) : Test(graph.nodes[i])}

\* The state-write sinks of the graph on a line
StateWritesOn(lineNum) ==
    {i \in 1..Len(graph.sinks) :
        graph.sinks[i].kind = "state-write" /\ graph.sinks[i].line = lineNum}

\* The one-line function f of the example has been analyzed with the field
\* balanceOf_
SetBalanceAnalyzed ==
    /\ functionInfo.fullSource = SetBalanceSource
    /\ stateVariables = <<"balanceOf_">>

\* The graph of the example: one parameter definition of amount_ tagged
\* token-amount, one use of amount_, one use of msg.sender tagged msg-sender,
\* one state-write sink on the line, amount_ among its inputs
SetBalanceGraph ==
    LET ParameterAmount(n) ==
            n.varName = "amount_" /\ n.kind = "parameter" /\ n.isDefinition
        UseAmount(n) == n.varName = "amount_" /\ ~n.isDefinition
        UseSender(n) == n.varName = "msg.sender" /\ ~n.isDefinition
        line == functionInfo.location.start.line
    IN /\ Cardinality(NodesWhere(ParameterAmount)) = 1
       /\ \A i \in NodesWhere(ParameterAmount) :
             graph.nodes[i].defiTag = "token-amount"
       /\ Cardinality(NodesWhere(UseAmount)) = 1
       /\ Cardinality(NodesWhere(UseSender)) = 1
       /\ \A i \in NodesWhere(UseSender) : graph.nodes[i].defiTag = "msg-sender"
       /\ Cardinality(StateWritesOn(line)) = 1
       /\ \A i \in StateWritesOn(line) : Includes(graph.sinks[i].inputVars, "amount_")

\* The position of the "]" that closes a "[" when `depth` of them are open
RECURSIVE ClosingBracket(_, _, _)
ClosingBracket(s, i, depth) ==
    IF i > Len(s) THEN 0
    ELSE IF s[i] = "[" THEN ClosingBracket(s, i + 1, depth + 1)
    ELSE IF s[i] = "]" /\ depth = 1 THEN i
    ELSE IF s[i] = "]" THEN ClosingBracket(s, i + 1, depth - 1)
    ELSE ClosingBracket(s, i + 1, depth)

\* A line that is the statement `field[key] = rhs;`: the field written and
\* the right-hand side, the key being whatever the brackets of the field hold
IndexedWrite(text) ==
    LET s == Trim(text)
        e == WordEnd(s, 1)
        close == ClosingBracket(s, e + 2, 1)
        eq == SkipSpaces(s, close + 1)
        semi == FindChar(s, eq, {";"})
    IN [ok |-> /\ e >= 1
               /\ s[1] \in IdentStartChars
               /\ At(s, e + 1) = "["
               /\ close # 0
               /\ At(s, eq) = "="
               /\ At(s, eq + 1) # "="
               /\ semi # 0,
        field |-> Str(SubSeq(s, 1, e)),
        rhs |-> SubSeq(s, eq + 1, semi - 1)]

\* Every line `field[key] = rhs;` that writes a known field has one state-write
\* sink, whose inputs hold the identifiers of rhs and not the field
IndexedWritesHaveOneSink ==
    LET lines == Split(functionInfo.fullSource, "\n")
    IN \A i \in 1..Len(lines) :
          LET w == IndexedWrite(lines[i])
              written == StateWritesOn(functionInfo.location.start.line + (i - 1))
              names == identifiers(w.rhs)
          IN w.ok /\ Includes(stateVariables, w.field) =>
                /\ Cardinality(written) = 1
                /\ \A k \in written :
                      /\ \A j \in 1..Len(names) :
                            Includes(graph.sinks[k].inputVars, Str(names[j].text))
                      /\ ~Includes(graph.sinks[k].inputVars, w.field)

\* C9: analyzing `function f(uint256 amount_) public { balanceOf_[msg.sender] =
\* amount_; }` with the field balanceOf_ gives exactly one parameter definition
\* node of amount_ tagged token-amount, exactly one use node of amount_, exactly
\* one use node of msg.sender tagged msg-sender and exactly one state-write sink
\* on that line with amount_ among its inputs; and in every analyzed function an
\* indexed write `field[key] = rhs` to a known field has exactly one state-write
\* sink on its line, whose inputs include the identifiers of rhs and exclude
\* the field.
C9_SetBalanceGraphAndIndexedWrites ==
    /\ SetBalanceAnalyzed => SetBalanceGraph
    /\ IndexedWritesHaveOneSink

\* The use nodes of the graph
UseNodes == {graph.nodes[i] : i \in NodesWhere(LAMBDA n : ~n.isDefinition)}

\* The definitions of the name of a use, on the line of the use or before
QualifyingDefinitions(useNode) ==
    {d \in Range(MapGetOr(graph.definitions, useNode.varName, <<>>)) :
        d.line <= useNode.line}

\* The 'use' edges that end in a use node
UseEdgesInto(useNode) ==
    {i \in 1..Len(graph.edges) :
        graph.edges[i].edgeType = "use" /\ graph.edges[i].to = useNode}

-----------------------------------------------------------------------------
(* Claims about tracing                                                     *)

\* A set of names that holds the source of every edge into one of its names
ClosedUnderIncomingEdges(visited) ==
    \A i \in 1..Len(graph.edges) :
        Includes(visited, graph.edges[i].to.varName) =>
            Includes(visited, graph.edges[i].from.varName)

\* Two names that reach each other over edges of the graph
OnCycle(a, b) ==
    /\ a # b
    /\ \E i, j \in 1..Len(graph.edges) :
          /\ graph.edges[i].from.varName = a /\ graph.edges[i].to.varName = b
          /\ graph.edges[j].from.varName = b /\ graph.edges[j].to.varName = a

\* C11: the Set a backward trace leaves holds the source of every edge into
\* one of its names; traceBackward run again for one of its names on that Set
\* ends without exhausting the call stack and leaves the Set as it was, also
\* when edges form cycles; and no trace changes the graph.
C11_TraceBackwardIdempotentReadOnly ==
    /\ [](flow.call # "none" =>
            /\ ~flow.overflow
            /\ ClosedUnderIncomingEdges(flow.visited))
    /\ [](flow.call = "traceBackward" => flow.visited = flow.before)
    /\ [][flow' # flow => graph' = graph]_vars

\* traceBackward has run again on the Set of a trace over a graph in which two
\* different names reach each other, the Set holding both
C11_RetracedOverCycle ==
    /\ flow.call = "traceBackward"
    /\ \E a, b \in Range(flow.visited) : OnCycle(a, b)
    /\ Len(flow.visited) >= 3

-----------------------------------------------------------------------------
(* Claims about a sole implementer, overloads and rebuilt snapshots        *)

\* Type `name` lists `base` among its bases, or a base of it within n steps does
RECURSIVE InheritsWithin(_, _, _)
InheritsWithin(name, base, n) ==
    /\ n > 0
    /\ \E i \in 1..Len(BasesOf(name)) :
          \/ BasesOf(name)[i] = base
          \/ InheritsWithin(BasesOf(name)[i], base, n - 1)

\* X is not an interface, lists the interface among its bases and declares
\* methodName with a body, and no other type inherits the interface
SoleImplementer(X, interfaceName, methodName) ==
    /\ MapHas(contractMap, interfaceName)
    /\ MapGet(contractMap, interfaceName).kind = "interface"
    /\ Includes(BasesOf(X), interfaceName)
    /\ DeclaresImplementation(X, methodName)
    /\ \A i \in 1..Len(contractMap) :
          InheritsWithin(contractMap[i].k, interfaceName, Len(contractMap)) =>
              contractMap[i].k = X

\* C12 (as claimed): when X is not an interface, lists interface I among its
\* bases, declares m with a non-empty body and is the only type that inherits
\* I, findImplementations(I, m) returns exactly one result, of contract X and
\* not inherited.
C12_SoleImplementerIsTheResult ==
    call.op = "findImplementations" =>
        \A i \in 1..Len(contractMap) :
            SoleImplementer(contractMap[i].k, call.a1, call.a2) =>
                /\ error = "none"
                /\ Len(result) = 1
                /\ result[1].contractName = contractMap[i].k
                /\ ~result[1].isInherited

\* The first type of a chain that is not an interface and declares methodName
\* with a body, as a list of one name, or the empty list
FirstDeclaring(chain, methodName) ==
    LET declaring == {i \in 1..Len(chain) : DeclaresImplementation(chain[i], methodName)}
    IN IF declaring = {} THEN <<>>
       ELSE <<chain[CHOOSE i \in declaring : \A j \in declaring : i <= j]>>

\* What the implementers from the i-th on contribute: for each one that is
\* indexed and not an interface, the first declaring type of its chain
RECURSIVE Contributions(_, _, _)
Contributions(implementers, i, methodName) ==
    IF i > Len(implementers) THEN <<>>
    ELSE (IF /\ MapHas(contractMap, implementers[i])
             /\ MapGet(contractMap, implementers[i]).kind # "interface"
          THEN FirstDeclaring(MapGetOr(inheritanceChains, implementers[i],
                                       <<implementers[i]>>), methodName)
          ELSE <<>>)
         \o Contributions(implementers, i + 1, methodName)

\* C16 (as claimed): the results of findImplementations are, implementer by
\* implementer, the first type of the implementer's chain that declares a
\* function named methodName with a non-empty body, and nothing for an
\* implementer whose chain has no such type; a type counts also when only a
\* later one of its functions of that name has a body.
C16_FirstDeclaringTypePerImplementer ==
    (call.op = "findImplementations" /\ error = "none") =>
        ContractNames(result) =
            Contributions(getImplementingContracts(Resolver, call.a1).value,
                          1, call.a2)

\* Some type of the snapshot declares `using libraryName for typeName`
Attached(libraryName, typeName) ==
    \E i \in 1..Len(files) :
        \E j \in 1..Len(files[i].usingDirectives) :
            /\ files[i].usingDirectives[j].libraryName = libraryName
            /\ files[i].usingDirectives[j].forType = typeName

\* The type named libraryName is a library that declares methodName with a body
LibraryDeclares(libraryName, methodName) ==
    /\ DeclaresImplementation(libraryName, methodName)
    /\ MapGet(contractMap, libraryName).kind = "library"

C15_MapsAreThoseOfAFreshBuild ==
    built =>
        LET fresh == buildInheritanceGraph(NewResolver, files)
        IN /\ contractMap = fresh.contractMap
           /\ inheritedBy = fresh.inheritedBy
           /\ inheritanceChains = fresh.inheritanceChains
           /\ typeToLibraries = fresh.typeToLibraries
           /\ contractUsingDirectives = fresh.contractUsingDirectives

\* A library workspace, whose first build indexes five contracts, has been
\* rebuilt with every file closed, and a lookup on it has found nothing
C15_RebuiltEmpty ==
    /\ built
    /\ files = <<>>
    /\ contractMap = <<>>
    /\ typeToLibraries = <<>>
    /\ call.op = "findLibraryMethods"
    /\ call.a3 = "A"
    /\ result = <<>>

\* The record of the snapshot that declares `name` last
LastRecord(name) ==
    files[CHOOSE i \in 1..Len(files) :
             /\ files[i].name = name
             /\ \A j \in 1..Len(files) : files[j].name = name => j <= i]

\* C17 (as claimed): for every type name of the snapshot, declared once or
\* several times, the name index holds the record seen last, and the directive
\* list that findLibraryMethods reads for that name as context is the one of
\* the record seen last, never that of an earlier record.
C17_LastRecordWinsForIndexAndDirectives ==
    \A i \in 1..Len(files) :
        LET last == LastRecord(files[i].name)
        IN /\ MapGet(contractMap, files[i].name) = last
           /\ MapGetOr(contractUsingDirectives, files[i].name, <<>>)
                 = last.usingDirectives

-----------------------------------------------------------------------------
(* Claims about the serialized graph                                        *)

\* The keys of a Map in insertion order
Keys(map) == [i \in 1..Len(map) |-> map[i].k]

\* Two indices with the same keys in the same order and, under each key, the
\* same nodes in the same order
SameIndex(rebuilt, original) ==
    /\ Range(Keys(rebuilt)) = Range(Keys(original))
    /\ Keys(rebuilt) = Keys(original)
    /\ \A i \in 1..Len(original) :
          MapGetOr(rebuilt, original[i].k, <<>>) = original[i].v

\* C13: the definitions and uses indices that initDataFlow rebuilds from the
\* serialized pairs have the key sets, the key order and, for each key, the
\* node list of the indices of the graph that was serialized.
C13_RebuiltIndicesEqualOriginal ==
    dataFlowGraph # <<>> =>
        /\ SameIndex(dataFlowGraph[1].definitions, graph.definitions)
        /\ SameIndex(dataFlowGraph[1].uses, graph.uses)

\* A graph has made the round trip whose indices hold several keys, one of
\* them with several definitions, and whose uses differ from its definitions
C13_RoundTripOfSeveralKeys ==
    /\ dataFlowGraph # <<>>
    /\ Len(dataFlowGraph[1].definitions) >= 3
    /\ Len(dataFlowGraph[1].uses) >= 3
    /\ \E i \in 1..Len(dataFlowGraph[1].definitions) :
          Len(dataFlowGraph[1].definitions[i].v) >= 2
    /\ Keys(dataFlowGraph[1].definitions) # Keys(dataFlowGraph[1].uses)

-----------------------------------------------------------------------------
(* Claims about assignments, uses and state writes                          *)

\* The lines of the analyzed function
SourceLines == Split(functionInfo.fullSource, "\n")

\* The line number analyze gives to the i-th line
LineNumber(i) == functionInfo.location.start.line + (i - 1)

\* The targets of the assignments that assignPattern finds on a line
AssignedOn(line) ==
    {Str(match.targetVar) : match \in Range(execAll("assignPattern", line, 1))}

\* The node list and the definitions index hold a definition node of the name
\* on the line, of kind state for a field and local otherwise
DefinedOn(name, lineNum) ==
    \E n \in Range(graph.nodes) :
        /\ n.varName = name
        /\ n.line = lineNum
        /\ n.isDefinition
        /\ n.kind = IF Includes(stateVariables, name) THEN "state" ELSE "local"
        /\ Includes(MapGetOr(graph.definitions, name, <<>>), n)

\* C18 (as claimed): for every assignment `target (op)= expr` that analyze
\* detects on a line, the node list and the definitions index hold a
\* definition node of target on that line, of kind state when target is a
\* known field and local otherwise, also when target was defined before.
C18_AssignmentAddsDefinitionNode ==
    \A i \in 1..Len(SourceLines) :
        \A name \in AssignedOn(SourceLines[i]) : DefinedOn(name, LineNumber(i))

\* The name is a known field, or the definitions index holds a definition of
\* it on an earlier line
KnownBefore(name, lineNum) ==
    \/ Includes(stateVariables, name)
    \/ \E n \in Range(MapGetOr(graph.definitions, name, <<>>)) : n.line < lineNum

\* The text that follows the k-th identifier of a line
RestAfter(line, k) ==
    SubSeq(line, identifiers(line)[k].index + Len(identifiers(line)[k].text) + 1,
           Len(line))

\* The names that occur on a line at a position that is not an assignment
\* target
OccurringOutsideTarget(line) ==
    {Str(identifiers(line)[k].text) :
        k \in {j \in 1..Len(identifiers(line)) :
                  ~isDefinitionContext(RestAfter(line, j))}}

\* The use nodes of a name on a line, by position in the node list
UsesOn(name, lineNum) ==
    {k \in 1..Len(graph.nodes) :
        /\ ~graph.nodes[k].isDefinition
        /\ graph.nodes[k].varName = name
        /\ graph.nodes[k].line = lineNum}

\* C19 (as claimed): when a name that is a known field or has a definition on
\* an earlier line occurs on a line at some position that is not an
\* assignment target, the graph holds exactly one use node of that name on
\* that line, as for the right-hand occurrence in `x = x + 1`.
C19_OneUsePerNameAndLine ==
    \A i \in 1..Len(SourceLines) :
        \A name \in OccurringOutsideTarget(SourceLines[i]) :
            KnownBefore(name, LineNumber(i)) =>
                Cardinality(UsesOn(name, LineNumber(i))) = 1

\* `(op)=` stands at position p of the line and is no comparison
AssignsAt(line, p) ==
    LET eq == IF IsOperator(At(line, p)) /\ At(line, p + 1) = "=" THEN p + 1 ELSE p
    IN At(line, eq) = "=" /\ At(line, eq + 1) # "="

\* The line holds a direct write `field (op)= expr` or an indexed write
\* `field[key] (op)= expr` to the field
WritesField(line, field) ==
    \E i \in 1..Len(line) :
        LET after == SkipSpaces(line, i + Len(field))
            close == ClosingBracket(line, after + 1, 1)
        IN /\ WordBoundary(line, i)
           /\ StartsWithAt(line, i, field)
           /\ ~(At(line, i + Len(field)) \in WordChars)
           /\ \/ AssignsAt(line, after)
              \/ /\ At(line, after) = "["
                 /\ close # 0
                 /\ AssignsAt(line, SkipSpaces(line, close + 1))

\* The fields that the state-write sinks on a line are recorded for
SinkFieldsOn(lineNum) ==
    {f \in Range(stateVariables) :
        \E k \in StateWritesOn(lineNum) :
            graph.sinks[k].description \in {f \o " = ...", f \o "[...] = ..."}}

\* The fields that detectReentrancyPatterns records as written on a line
WrittenFieldsOn(lineNum) ==
    {w.varName : w \in {x \in Range(stateWriteLines(SourceLines,
                                        functionInfo.location.start.line,
                                        stateVariables, 1, 1)) :
                           x.line = lineNum}}

\* C20 (as claimed): a state-write sink of analyze, and a state-write line of
\* detectReentrancyPatterns, is recorded for a field on a line only if the
\* line holds a direct write `field (op)= expr` or an indexed write
\* `field[key] (op)= expr` to that field; a line that only reads or compares
\* the field, such as `field == x`, gives neither.
C20_StateWriteOnlyForWrites ==
    \A i \in 1..Len(SourceLines) :
        \A f \in SinkFieldsOn(LineNumber(i)) \cup WrittenFieldsOn(LineNumber(i)) :
            WritesField(SourceLines[i], f)

-----------------------------------------------------------------------------
(* Claims about the edges of the data-flow graph                            *)

\* The text of the line with a line number
LineText(lineNum) ==
    SourceLines[lineNum - functionInfo.location.start.line + 1]

\* The 0-based columns of a line at which declPattern captures a declared
\* name: the declared name of `T x;` and of each entry of a parameter list
DeclaredColumns(line) ==
    {id.index : id \in
        {x \in Range(identifiers(line)) :
            \E match \in Range(execAll("declPattern", line, 1)) :
                /\ x.text = match.varName
                /\ x.index > match.index
                /\ x.index + Len(x.text) < match.end
                /\ At(line, SkipSpaces(line, x.index + Len(x.text) + 1))
                      \in {"=", ";", ",", ")"}}}

\* The 0-based columns of the names between the brackets of a tuple unpack
\* `(a, b) = f()`
UnpackedColumns(line) ==
    LET opens == {o \in 1..Len(line) :
                     /\ line[o] = "("
                     /\ FindChar(line, o + 1, {")"}) >= o + 2
                     /\ At(line, SkipSpaces(line,
                               FindChar(line, o + 1, {")"}) + 1)) = "="}
        open == CHOOSE o \in opens : \A p \in opens : o <= p
        close == FindChar(line, open + 1, {")"})
    IN IF opens = {} THEN {}
       ELSE {id.index : id \in
               {x \in Range(identifiers(line)) :
                   /\ x.index + 1 > open
                   /\ x.index + Len(x.text) < close
                   /\ At(line, SkipSpaces(line, x.index + Len(x.text) + 1))
                         \in {",", ")"}}}

\* The 'use' edges that lead from a definition to a use on the line of the
\* definition, the use standing where the name is declared
SelfUseEdges ==
    {i \in 1..Len(graph.edges) :
        LET e == graph.edges[i]
        IN /\ e.edgeType = "use"
           /\ e.from.isDefinition
           /\ e.from.varName = e.to.varName
           /\ e.from.line = e.to.line
           /\ e.to.column \in DeclaredColumns(LineText(e.to.line))
                              \cup UnpackedColumns(LineText(e.to.line))}

\* C21 (as claimed): no 'use' edge links a definition to itself: the
\* occurrence of a name that declares it (in `T x;`, in a parameter list, in
\* a tuple unpack `(a, b) = f()`) is not the use node of a 'use' edge that
\* starts at a definition of that name on the same line.
C21_NoUseEdgeFromDefinitionToItself ==
    SelfUseEdges = {}

\* The definitions of a name in the definitions index
DefinitionsOf(name) == Range(MapGetOr(graph.definitions, name, <<>>))

\* The edges of an assignment: from a definition of the source that no
\* definition of an earlier line than the assignment follows, to the target
\* on the line of the assignment, labelled as the assignment is
AssignmentEdges(source, match, lineNum) ==
    {i \in 1..Len(graph.edges) :
        LET e == graph.edges[i]
        IN /\ e.edgeType \in {"assign", "state-write"}
           /\ e.from \in DefinitionsOf(source)
           /\ e.from.line <= lineNum
           /\ \A d \in DefinitionsOf(source) :
                 d.line < lineNum => d.line <= e.from.line
           /\ e.to.varName = Str(match.targetVar)
           /\ e.to.line = lineNum
           /\ e.to.column = match.index
           /\ e.transformation = IF match.operator = "" THEN Undefined
                                 ELSE match.operator \o "="}

\* The identifiers on the right-hand side of an assignment that have a
\* definition on an earlier line
DefinedSources(match, lineNum) ==
    {name \in {Str(id.text) : id \in Range(identifiers(match.expression))} :
        \E d \in DefinitionsOf(name) : d.line < lineNum}

\* C22 (as claimed): for every assignment that analyze detects, each
\* identifier on the right-hand side that has a prior definition has an
\* edge from its latest definition to the assignment target, labelled with the
\* compound operator followed by `=` when the assignment has one and unlabelled
\* otherwise; no right-hand identifier with a prior definition is left
\* without an edge.
C22_EveryDefinedSourceHasAnEdge ==
    \A i \in 1..Len(SourceLines) :
        \A match \in Range(execAll("assignPattern", SourceLines[i], 1)) :
            \A name \in DefinedSources(match, LineNumber(i)) :
                AssignmentEdges(name, match, LineNumber(i)) # {}

\* The spellings of the name of a node in the source of the function and in
\* its parameter list
NameChars(n) ==
    {id.text : id \in {x \in UNION {Range(identifiers(SourceLines[i])) :
                                        i \in 1..Len(SourceLines)} :
                          Str(x.text) = n.varName}}
    \cup {p.name : p \in {q \in Range(functionInfo.parameters) :
                             Str(q.name) = n.varName}}

\* C23 (as claimed): a node whose name matches the recipient/target
\* vocabulary (to, from, recipient, token, pool, vault, ...) or whose declared
\* type is `address` is tagged address-target.
C23_TargetVocabularyOrAddressTypeIsAddressTarget ==
    \A n \in Range(graph.nodes) :
        \/ \E name \in NameChars(n) : TestWords(AddressWords, name)
        \/ n.typeName = "address"
        => n.defiTag = "address-target"

\* The node is an element of the node list of the graph
InNodeList(node) == \E i \in 1..Len(graph.nodes) : graph.nodes[i] = node

\* C28 (as claimed): in every graph that analyze returns, both endpoints of
\* every edge are elements of the node list of the graph, and every node that
\* getVariableFlowTargets returns is a node of the graph.
C28_EdgeEndpointsAndFlowTargetsAreNodes ==
    /\ \A i \in 1..Len(graph.edges) :
          InNodeList(graph.edges[i].from) /\ InNodeList(graph.edges[i].to)
    /\ flow.call = "getVariableFlowTargets" =>
          \A i \in 1..Len(flow.targets) : InNodeList(flow.targets[i])

\* The lines of the function after the first neither assign to the name nor
\* declare it, and the first line does not assign to it
NotRedefined(name) ==
    \A i \in 1..Len(SourceLines) :
        /\ \A match \in Range(execAll("assignPattern", SourceLines[i], 1)) :
              match.targetVar # name
        /\ i > 1 =>
              \A id \in Range(identifiers(SourceLines[i])) :
                 id.text = name =>
                    id.index \notin DeclaredColumns(SourceLines[i])
                                    \cup UnpackedColumns(SourceLines[i])

\* C30 (as claimed): after analyze, a named parameter that is neither
\* assigned nor redeclared in the body has exactly one entry in the
\* definitions index, the node of kind parameter at the start line of the
\* function; the parameter list in the source text adds no second definition
\* of kind local, and every use of the parameter is linked to the definition
\* of kind parameter.
C30_ParameterHasOneDefinition ==
    \A p \in Range(functionInfo.parameters) :
        p.name # <<>> /\ NotRedefined(p.name) =>
            LET defs == MapGetOr(graph.definitions, Str(p.name), <<>>)
            IN /\ Len(defs) = 1
               /\ defs[1].kind = "parameter"
               /\ defs[1].line = functionInfo.location.start.line
               /\ \A i \in 1..Len(graph.edges) :
                     /\ graph.edges[i].edgeType = "use"
                     /\ graph.edges[i].to.varName = Str(p.name)
                     => graph.edges[i].from = defs[1]

-----------------------------------------------------------------------------
(* Claims about lookups of libraries and of implementations                 *)

\* The libraries that findLibraryMethods gives for the type and method of the
\* last call when called with a context
LibrariesFrom(contextContract) ==
    Range(ContractNames(findLibraryMethods(Resolver, call.a1, call.a2,
                                           contextContract)))

\* C29: the set of libraries that findLibraryMethods(typeName, methodName,
\* contextType) returns is the same for every context argument, the omitted
\* one included; the context changes at most the order of the results.
C29_LibrariesIndependentOfContext ==
    call.op = "findLibraryMethods" =>
        \A c \in Contexts : LibrariesFrom(c) = Range(ContractNames(result))

\* A lookup from context B has found M before L, while the lookup without a
\* context finds L before M
C29_ContextChangedTheOrder ==
    /\ call.op = "findLibraryMethods"
    /\ call.a3 = "B"
    /\ ContractNames(result) = <<"M", "L">>
    /\ ContractNames(findLibraryMethods(Resolver, call.a1, call.a2, Undefined))
          = <<"L", "M">>

\* The picker's selection step, handleSelectImplementation: the first entry
\* of findContractsWithMethod(methodName) with the contract name chosen;
\* <<>> when there is none
Selected(contractName, methodName) ==
    LET implementations == findContractsWithMethod(Resolver, methodName, Undefined)
        named == {i \in 1..Len(implementations) :
                     implementations[i].contractName = contractName}
    IN IF named = {} THEN <<>>
       ELSE <<implementations[CHOOSE i \in named : \A j \in named : i <= j]>>

\* C25 (as claimed): on an unchanged graph, for every implementation that
\* findAllImplementations(interfaceName, methodName, ctx) offers,
\* findContractsWithMethod(methodName) holds an entry with the same contract
\* name, and the first such entry carries the function record of the offered
\* implementation.
C25_OfferedImplementationIsSelected ==
    call.op = "findAllImplementations" /\ error = "none" =>
        \A i \in 1..Len(result) :
            LET selected == Selected(result[i].contractName, call.a2)
            IN /\ selected # <<>>
               /\ selected[1].functionInfo = result[i].functionInfo

-----------------------------------------------------------------------------
(* Claims about the bracket matcher                                         *)

\* How the 1-based position k of a line is read when the text after position
\* p is code: "code", <<q>> inside a literal opened by the quote q, and
\* <<q, q>> right after a backslash inside such a literal
RECURSIVE ReadAs(_, _, _)
ReadAs(line, p, k) ==
    IF k <= p + 1 THEN <<>>
    ELSE LET before == ReadAs(line, p, k - 1)
             c == line[k - 1]
         IN IF before = <<>>
            THEN IF c \in {"\"", "'"} THEN <<c>> ELSE <<>>
            ELSE IF Len(before) = 2 THEN <<before[1]>>
            ELSE IF c = "\\" THEN <<before[1], before[1]>>
            ELSE IF c = before[1] THEN <<>>
            ELSE before

\* The brackets `c` between the positions p and k, k included, that stand
\* outside string literals
BracketsOutsideLiterals(line, p, k, c) ==
    {j \in (p + 1)..k : line[j] = c /\ ReadAs(line, p, j) = <<>>}

\* The 0-based index of the ")" that closes the "(" at the 0-based index
\* openPos, -1 if there is none or no "(" stands at openPos
ClosingParen(line, openPos) ==
    LET p == openPos + 1
        closing == {k \in (p + 1)..Len(line) :
                       /\ line[k] = ")"
                       /\ ReadAs(line, p, k) = <<>>
                       /\ Cardinality(BracketsOutsideLiterals(line, p, k, ")"))
                            = 1 + Cardinality(BracketsOutsideLiterals(line, p, k, "("))}
    IN IF At(line, p) # "(" \/ closing = {} THEN -1
       ELSE (CHOOSE k \in closing : \A j \in closing : k <= j) - 1

\* C26: findMatchingParen(line, openPos) returns the index of the ")" that
\* closes the "(" at openPos, nested brackets counted and brackets inside
\* single- or double-quoted string literals (with backslash escapes) not
\* counted, and -1 when openPos holds no "(" or no closing ")" exists; the
\* scan ends after at most one loop body per character of the line.
C26_FindMatchingParenClosesTheBracket ==
    call.op = "findMatchingParen" =>
        /\ result.value = ClosingParen(call.a1, call.a2)
        /\ result.iterations <= Len(call.a1)

\* The scan of `(')')` has passed the bracket inside the literal and returned
\* the index of the last character
C26_BracketInsideLiteralSkipped ==
    /\ call.op = "findMatchingParen"
    /\ call.a1 = <<"(", "'", ")", "'", ")">>
    /\ call.a2 = 0
    /\ result.value = 4

-----------------------------------------------------------------------------
(* Claims about the locked data-flow view                                   *)

\* The step is Escape pressed, or a click outside every flow variable and
\* outside the tooltip, while the view is locked
DismissStep ==
    /\ isLocked
    /\ dataFlowGraph # <<>>
    /\ ~isLocked'

\* C27 (as claimed): once a variable is locked by a click, Escape or a click
\* outside every flow variable and the tooltip dismisses the view completely:
\* the lock is released, no highlight is left and the tooltip is removed; and
\* while the view is locked, hovering a variable changes neither the active
\* variable nor the highlights.
C27_DismissClearsLockHighlightsAndTooltip ==
    /\ [][DocumentKeyDown \/ DocumentClick =>
            (isLocked /\ ~isLocked' => highlighted' = {} /\ tooltip' = <<>>)]_vars
    /\ [][isLocked /\ (HandleMouseEnter \/ HandleMouseLeave) =>
            activeVariable' = activeVariable /\ highlighted' = highlighted]_vars

-----------------------------------------------------------------------------
(* Claims about the provider's handlers                                     *)

\* The five maps of a resolver built once, from `contracts`
GraphOf(contracts) ==
    LET g == buildInheritanceGraph(NewResolver, contracts)
    IN [contractMap |-> g.contractMap, inheritedBy |-> g.inheritedBy,
        inheritanceChains |-> g.inheritanceChains,
        typeToLibraries |-> g.typeToLibraries,
        contractUsingDirectives |-> g.contractUsingDirectives]

\* Handler h is between its buildInheritanceGraph and its query
Built(h) == handlers[h].pc = "built"

\* C24: every findAllImplementations query of handleFindImplementations runs
\* on a graph completely built from the snapshot the same handler fetched:
\* between the handler's buildInheritanceGraph and its query the cache and the
\* five maps are those of its own snapshot, no step of another handler occurs
\* there, and the query returns what a resolver built from that snapshot alone
\* returns.
C24_QueryRunsOnOwnSnapshot ==
    /\ [](\A h \in 1..MaxHandlers :
            Built(h) => /\ workspaceFilesCache = handlers[h].fetched[1]
                        /\ files = handlers[h].fetched[1]
                        /\ Resolver = GraphOf(handlers[h].fetched[1]))
    /\ [][\A h \in 1..MaxHandlers :
            Built(h) =>
                /\ FindImplementationsQuery(h)
                /\ LET returned ==
                           findAllImplementations(GraphOf(handlers[h].fetched[1]),
                               handlers[h].message[1], handlers[h].message[2],
                               contextOf(currentContractName))
                   IN result' = returned.value /\ error' = returned.error]_vars

\* A handler has queried the graph of an empty workspace it fetched, for the
\* context of contract A that a showDiagram call set on an earlier graph,
\* while another showDiagram call is waiting for its workspace files
C24_QueriedAfterAnotherHandlersBuild ==
    /\ call.op = "findAllImplementations"
    /\ call.a3 = "A"
    /\ files = <<>>
    /\ workspaceFilesCache = <<>>
    /\ \E g \in 1..MaxHandlers :
          handlers[g].kind = "showDiagram" /\ handlers[g].pc = "fetching"

====
